---- MODULE Spec2Model ----
(***************************************************************************)
(* Model of the tabular ingestion pipeline of query-sheets:                *)
(* src/excel_to_postgres.py (convert_python_type_to_postgres,              *)
(* determine_data_type, get_types_casting_hierarchy, xlsx_to_sql).         *)
(*                                                                         *)
(* Python values are records [k, neg, m, t]: k is the runtime class, neg   *)
(* and m the sign and the magnitude of a number (m is a sequence of        *)
(* base-10^9 limbs, most significant first, <<>> for zero, so that the     *)
(* 64-bit thresholds of the source keep their exact value), t the text of  *)
(* a string, the fractional digits of a float or the text of a temporal    *)
(* value.                                                                  *)
(***************************************************************************)
EXTENDS Integers, Sequences, FiniteSets, TLC

VARIABLES
    pc,                 \* position of xlsx_to_sql
    headers,            \* headers (None until the first row is read)
    table_data_types,   \* insertion-ordered dict: sequence of [h, t]
    chunk,              \* the in-memory batch (both passes)
    tmp,                \* lines of the temporary spool file
    tmp_exists,         \* the NamedTemporaryFile is open and on disk
    read_pos,           \* lines of tmp consumed by the second pass
    nparams,            \* number of %s placeholders of the INSERT query
    statements,         \* calls made on the database cursor/connection
    err,                \* the exception xlsx_to_sql raised, if any
    scan_log,           \* history: one record per data row iterated
    observed,           \* history: per dict entry, the cells reconciled
    writes,             \* history: sizes of the batches written to tmp
    db,                 \* the table table_name: committed, and in the transaction
    up,                 \* process_excel_file: position, staged file, exception
    rq,                 \* run_query: position and local variables
    execs,              \* history: the calls of postgres.execute_query
    subst_log,          \* history: the placeholder substitutions of run_query
    databases,          \* databases.databases: the registry in memory
    database_file,      \* the content of databases.json
    last_op,            \* history: per id, the last call that succeeded
    hq,                 \* query_database: position, request and response
    gs,                 \* the spreadsheet: its sheets and the requests sent to it
    gp,                 \* google_api call: position and local variables
    arg_val,            \* TypeSpec: the value handed to the type functions
    arg_prev,           \* TypeSpec: previous_type
    ret                 \* TypeSpec: the value returned

vars == <<pc, headers, table_data_types, chunk, tmp, tmp_exists, read_pos,
          nparams, statements, err, scan_log, observed, writes, db, up,
          rq, execs, subst_log, databases, database_file, last_op, hq,
          gs, gp, arg_val, arg_prev, ret>>

xlsxVars == <<pc, headers, table_data_types, chunk, tmp, tmp_exists, read_pos,
              nparams, statements, err, scan_log, observed, writes, db, up>>

queryVars == <<rq, execs, subst_log>>

registryVars == <<databases, database_file, last_op>>

serverVars == <<databases, database_file, last_op, hq>>

sheetVars == <<gs, gp>>

typeVars == <<arg_val, arg_prev, ret>>

-----------------------------------------------------------------------------
(* Bounds of the model.                                                    *)

\* Data rows the source yields after the header row.
MaxDataRows == 4

\* The batch threshold chunk_size of xlsx_to_sql (5000 in the source, line
\* 220), scaled down so that full batches and remainders occur within
\* MaxDataRows rows.
chunk_size == 2

-----------------------------------------------------------------------------
(* Python values.                                                          *)

None == [k |-> "NoneType", neg |-> FALSE, m |-> <<>>, t |-> ""]

PyBool(b) == [k |-> "bool", neg |-> FALSE, m |-> IF b THEN <<1>> ELSE <<>>, t |-> ""]

PyInt(neg, m) == [k |-> "int", neg |-> neg, m |-> m, t |-> ""]

PyFloat(neg, m, frac) == [k |-> "float", neg |-> neg, m |-> m, t |-> frac]

PyStr(s) == [k |-> "str", neg |-> FALSE, m |-> <<>>, t |-> s]

PyObj(cls, s) == [k |-> cls, neg |-> FALSE, m |-> <<>>, t |-> s]

\* isinstance(val, cls): bool is a subclass of int, datetime.datetime a
\* subclass of datetime.date.
isinstance(val, cls) ==
    \/ val.k = cls
    \/ val.k = "bool" /\ cls = "int"
    \/ val.k = "datetime" /\ cls = "date"

\* a < b on magnitudes (limb sequences without leading zero limbs).
RECURSIVE LimbsLess(_, _)
LimbsLess(a, b) ==
    IF Len(a) # Len(b) THEN Len(a) < Len(b)
    ELSE IF a = <<>> THEN FALSE
    ELSE IF Head(a) # Head(b) THEN Head(a) < Head(b)
    ELSE LimbsLess(Tail(a), Tail(b))

\* a > b on Python numbers.
PyGt(a, b) ==
    IF a.neg /\ ~b.neg THEN FALSE
    ELSE IF ~a.neg /\ b.neg THEN TRUE
    ELSE IF a.neg THEN LimbsLess(a.m, b.m)
    ELSE LimbsLess(b.m, a.m)

\* The integer literals of convert_python_type_to_postgres.
Lit2147483645 == <<2, 147483645>>
Lit9223372036854775805 == <<9, 223372036, 854775805>>

-----------------------------------------------------------------------------
(* class DataTypes and the type functions.                                 *)

DataTypes == {"text", "real", "bigint", "integer", "json", "timestamp", "date", "boolean"}

\* Variant: the integer test placed before the boolean test.
convert_int_before_bool(val) ==
    IF val = None THEN "boolean"
    ELSE IF isinstance(val, "int") THEN
        IF \/ PyGt(PyInt(TRUE, Lit9223372036854775805), val)
           \/ PyGt(val, PyInt(FALSE, Lit9223372036854775805))
        THEN "text"
        ELSE IF \/ PyGt(PyInt(TRUE, Lit2147483645), val)
                \/ PyGt(val, PyInt(FALSE, Lit2147483645))
        THEN "bigint"
        ELSE "integer"
    ELSE IF isinstance(val, "bool") THEN "boolean"
    ELSE IF isinstance(val, "str") THEN "text"
    ELSE IF isinstance(val, "float") THEN "real"
    ELSE IF isinstance(val, "list") \/ isinstance(val, "dict") THEN "json"
    ELSE IF isinstance(val, "datetime") THEN "timestamp"
    ELSE IF isinstance(val, "date") THEN "date"
    ELSE "text"

convert_python_type_to_postgres(val) ==
    IF val = None THEN "boolean"
    ELSE IF isinstance(val, "bool") THEN "boolean"
    ELSE IF isinstance(val, "str") THEN "text"
    ELSE IF isinstance(val, "float") THEN "real"
    ELSE IF isinstance(val, "int") THEN
        IF \/ PyGt(PyInt(TRUE, Lit9223372036854775805), val)
           \/ PyGt(val, PyInt(FALSE, Lit9223372036854775805))
        THEN "text"
        ELSE IF \/ PyGt(PyInt(TRUE, Lit2147483645), val)
                \/ PyGt(val, PyInt(FALSE, Lit2147483645))
        THEN "bigint"
        ELSE "integer"
    ELSE IF isinstance(val, "list") \/ isinstance(val, "dict") THEN "json"
    ELSE IF isinstance(val, "datetime") THEN "timestamp"
    ELSE IF isinstance(val, "date") THEN "date"
    ELSE "text"

hierarchy ==
    [dt \in DataTypes |->
        CASE dt = "text" -> 0 [] dt = "real" -> 1 [] dt = "bigint" -> 2
          [] dt = "integer" -> 3 [] dt = "json" -> 4 [] dt = "timestamp" -> 5
          [] dt = "date" -> 6 [] dt = "boolean" -> 7]

get_types_casting_hierarchy(data_type) ==
    IF data_type \in DOMAIN hierarchy THEN hierarchy[data_type] ELSE 0

\* Variant: the comparison of the two ranks reversed.
determine_data_type_gt(previous_type, current_value) ==
    LET current_data_type == convert_python_type_to_postgres(current_value)
    IN  IF get_types_casting_hierarchy(current_data_type)
              > get_types_casting_hierarchy(previous_type)
        THEN current_data_type
        ELSE previous_type

\* Variant: the type of the latest value, without a comparison.
determine_data_type_latest(previous_type, current_value) ==
    convert_python_type_to_postgres(current_value)

determine_data_type(previous_type, current_value) ==
    LET current_data_type == convert_python_type_to_postgres(current_value)
    IN  IF get_types_casting_hierarchy(current_data_type)
              < get_types_casting_hierarchy(previous_type)
        THEN current_data_type
        ELSE previous_type

-----------------------------------------------------------------------------
(* The dict table_data_types: a sequence of [h, t] in insertion order.     *)

\* The value a key hashes and compares as: True == 1, False == 0 and
\* 1.0 == 1 are one key.
DictKey(h) ==
    IF h.k = "bool" THEN PyInt(FALSE, h.m)
    ELSE IF h.k = "float" /\ h.t = "0" THEN PyInt(h.neg, h.m)
    ELSE h

\* Index of the entry whose key equals h, 0 when there is none.
DictIndex(d, h) ==
    IF \E i \in 1..Len(d) : DictKey(d[i].h) = DictKey(h)
    THEN CHOOSE i \in 1..Len(d) : DictKey(d[i].h) = DictKey(h)
    ELSE 0

\* d.get(h, default)
DictGet(d, h, default) ==
    IF DictIndex(d, h) = 0 THEN default ELSE d[DictIndex(d, h)].t

\* d[h] = t: an existing entry keeps its place and its key object.
DictSet(d, h, t) ==
    IF DictIndex(d, h) = 0 THEN Append(d, [h |-> h, t |-> t])
    ELSE [d EXCEPT ![DictIndex(d, h)].t = t]

\* History kept beside the dict: the cells reconciled into each entry, each
\* with the entry's type after it.
Observe(obs, d, h, v, t) ==
    IF DictIndex(d, h) = 0 THEN Append(obs, <<[v |-> v, t |-> t]>>)
    ELSE [obs EXCEPT ![DictIndex(d, h)] = Append(@, [v |-> v, t |-> t])]

\* for h, v in zip(headers, row):
\*     table_data_types[h] = determine_data_type(table_data_types.get(h, boolean), v)
\* from position i on; the result is the dict with its history.
RECURSIVE ReconcileRow(_, _, _, _, _)
ReconcileRow(d, obs, hs, row, i) ==
    IF i > Len(hs) \/ i > Len(row) THEN [d |-> d, obs |-> obs]
    ELSE LET t == determine_data_type(DictGet(d, hs[i], "boolean"), row[i])
         IN  ReconcileRow(DictSet(d, hs[i], t), Observe(obs, d, hs[i], row[i], t),
                          hs, row, i + 1)

-----------------------------------------------------------------------------
(* json.dumps / json.loads of a row.  A line of the spool file is a        *)
(* sequence of JSON tokens; a value json cannot serialize raises TypeError.*)

JsonSerializable(v) == v.k \in {"NoneType", "bool", "int", "float", "str"}

JsonToken(v) ==
    CASE v.k = "NoneType" -> [tok |-> "null", neg |-> FALSE, m |-> <<>>, t |-> ""]
      [] v.k = "bool" -> [tok |-> IF v.m = <<>> THEN "false" ELSE "true",
                          neg |-> FALSE, m |-> <<>>, t |-> ""]
      [] v.k = "int" -> [tok |-> "int", neg |-> v.neg, m |-> v.m, t |-> ""]
      [] v.k = "float" -> [tok |-> "float", neg |-> v.neg, m |-> v.m, t |-> v.t]
      [] v.k = "str" -> [tok |-> "string", neg |-> FALSE, m |-> <<>>, t |-> v.t]

JsonValue(tk) ==
    CASE tk.tok = "null" -> None
      [] tk.tok = "true" -> PyBool(TRUE)
      [] tk.tok = "false" -> PyBool(FALSE)
      [] tk.tok = "int" -> PyInt(tk.neg, tk.m)
      [] tk.tok = "float" -> PyFloat(tk.neg, tk.m, tk.t)
      [] tk.tok = "string" -> PyStr(tk.t)

json_dumps(row) == [i \in 1..Len(row) |-> JsonToken(row[i])]

json_loads(line) == [i \in 1..Len(line) |-> JsonValue(line[i])]

\* '\n'.join([json.dumps(r) for r in chunk]) raises when a row does not serialize.
ChunkSerializable(c) ==
    \A i \in 1..Len(c) : \A j \in 1..Len(c[i]) : JsonSerializable(c[i][j])

\* tmp.write(('\n'.join([json.dumps(r) for r in chunk]) + '\n').encode())
WriteChunk(file, c) == file \o [i \in 1..Len(c) |-> json_dumps(c[i])]

-----------------------------------------------------------------------------
(* The source sheet: the rows ws.iter_rows(values_only=True) may yield.    *)

ValTrue == PyBool(TRUE)
ValOne == PyInt(FALSE, <<1>>)
ValX == PyStr("x")
ValStamp == PyObj("datetime", "2024-01-01 10:00:00")
ValDay == PyObj("date", "2024-01-01")

HeaderRows ==
    { <<PyStr("a")>>, <<PyStr("a"), PyStr("b")>>, <<PyStr("a"), PyStr("a")>> }

DataRows ==
    { <<>>, <<ValTrue>>, <<ValOne>>, <<ValX>>, <<ValStamp>>, <<ValDay>>,
      <<ValOne, ValX>>, <<ValTrue, None>>, <<ValX, ValOne, ValTrue>> }

\* headers = None: a marker no row equals.
NoHeaders == <<PyObj("headers is None", "")>>

NoError == [type |-> "none", at |-> "none"]

\* Variant: len(chunk) > chunk_size
AtThresholdStrict(c) == Len(c) > chunk_size

\* len(chunk) >= chunk_size
AtThreshold(c) == Len(c) >= chunk_size

\* Variant: the batch is not cleared.
ChunkKept(c) == c

\* chunk.clear()
ChunkClear(c) == <<>>

\* A call on the cursor or the connection, and whether it succeeded.
Stmt(op, cols, n, rows, ok) ==
    [op |-> op, cols |-> cols, nparams |-> n, rows |-> rows, ok |-> ok]

\* The table named table_name in the database.
Absent == [exists |-> FALSE, cols |-> <<>>, rows |-> <<>>]

OldTable ==
    [exists |-> TRUE, cols |-> <<[h |-> PyStr("old"), t |-> "text"]>>,
     rows |-> << <<PyStr("o")>> >>]

\* DROP TABLE IF EXISTS
DropIfExists(t) == Absent

\* CREATE TABLE fails on a table that exists.
CreateCanSucceed(t) == ~t.exists

\* CREATE TABLE
CreateNew(t, cols) == [exists |-> TRUE, cols |-> cols, rows |-> <<>>]

\* INSERT INTO ... VALUES, once per row of the batch
InsertRows(t, rows) == [t EXCEPT !.rows = @ \o rows]

\* An exception leaves the with-block of the connection: the transaction is
\* rolled back.
Rollback(d) == [d EXCEPT !.txn = d.committed]

\* conn.commit()
CommitTxn(d) == [d EXCEPT !.committed = d.txn]

\* process_excel_file before its first statement.
UploadStart ==
    [pc |-> "request", staged |-> FALSE, exc |-> "none",
     req |-> [has_file |-> FALSE, has_config |-> FALSE, filename |-> <<>>,
              config_filename |-> <<>>, database_id |-> "", table_name |-> <<>>],
     status |-> 0, error |-> ""]

-----------------------------------------------------------------------------
(* xlsx_to_sql                                                             *)

XlsxInit ==
    /\ pc = "idle"
    /\ headers = NoHeaders
    /\ table_data_types = <<>>
    /\ chunk = <<>>
    /\ tmp = <<>>
    /\ tmp_exists = FALSE
    /\ read_pos = 0
    /\ nparams = 0
    /\ statements = <<>>
    /\ err = NoError
    /\ scan_log = <<>>
    /\ observed = <<>>
    /\ writes = <<>>
    /\ \E t \in {Absent, OldTable} : db = [committed |-> t, txn |-> t]
    /\ up = UploadStart

\* load_workbook, wb[sheet_name], reset_dimensions; the temporary file is
\* created (212-222).  Opening the workbook may raise.
EnterXlsx ==
    /\ up.pc = "call"
    /\ pc = "idle"
    /\ up' = [up EXCEPT !.pc = "xlsx"]
    /\ \E ok \in BOOLEAN :
          IF ok THEN pc' = "scan" /\ tmp_exists' = TRUE /\ UNCHANGED err
          ELSE /\ pc' = "raised"
               /\ err' = [type |-> "Exception", at |-> pc]
               /\ UNCHANGED tmp_exists
    /\ UNCHANGED <<headers, table_data_types, chunk, tmp, read_pos, nparams,
                   statements, scan_log, observed, writes, db>>
    /\ UNCHANGED <<typeVars, queryVars, serverVars, sheetVars>>

\* Variant: the temporary file is left behind by an exception.
RaiseLeavingFile(e) ==
    /\ pc' = "raised"
    /\ err' = [type |-> e, at |-> pc]
    /\ UNCHANGED tmp_exists

\* An exception leaves both with-blocks: the temporary file is closed and
\* deleted, the exception reaches the caller.  err keeps the exception type
\* and the position it was raised at.
Raise(e) ==
    /\ pc' = "raised"
    /\ err' = [type |-> e, at |-> pc]
    /\ tmp_exists' = FALSE

\* Variant: the table is dropped as soon as the header is read.
ReadHeaderDropFirst(row) ==
    /\ pc = "scan"
    /\ headers = NoHeaders
    /\ headers' = row
    /\ statements' = Append(statements, Stmt("DROP", <<>>, 0, <<>>, TRUE))
    /\ UNCHANGED <<pc, table_data_types, chunk, tmp, tmp_exists, read_pos, nparams,
                   err, scan_log, observed, writes, db>>
    /\ UNCHANGED <<up, typeVars, queryVars, serverVars, sheetVars>>

\* Loop body, first row: if headers is None: headers = row; continue
ReadHeader(row) ==
    /\ pc = "scan"
    /\ headers = NoHeaders
    /\ headers' = row
    /\ UNCHANGED <<pc, table_data_types, chunk, tmp, tmp_exists, read_pos, nparams,
                   statements, err, scan_log, observed, writes, db>>
    /\ UNCHANGED <<up, typeVars, queryVars, serverVars, sheetVars>>

\* len(row) < len(headers): row becomes an itertools.chain object.
PadRow(row, hs) ==
    [cls |-> "chain", items |-> row \o [i \in 1..(Len(hs) - Len(row)) |-> None]]

\* len(obj): a list has a length, an itertools.chain object has none.
HasLen(obj) == obj.cls = "list"

\* Variant: headers = row
HeadersAfterWholeRow(row, hs) == IF Len(row) > Len(hs) THEN row ELSE hs

\* len(row) > len(headers): headers = row[:len(headers)]
HeadersAfter(row, hs) == IF Len(row) > Len(hs) THEN SubSeq(row, 1, Len(hs)) ELSE hs

\* Loop body, every later row (lines 224-243).
ScanRow(row0) ==
    /\ pc = "scan"
    /\ headers # NoHeaders
    /\ Len(scan_log) < MaxDataRows
    /\ LET row1 == IF Len(row0) < Len(headers) THEN PadRow(row0, headers)
                   ELSE [cls |-> "list", items |-> row0]
           entry == [L |-> Len(row0), H |-> Len(headers), before |-> headers]
       IN  IF ~HasLen(row1)
           THEN \* line 231: len() of the chain object raises TypeError
                /\ Raise("TypeError")
                /\ scan_log' = Append(scan_log,
                       entry @@ [out |-> "TypeError", row |-> row1.items, after |-> headers])
                /\ UNCHANGED <<headers, table_data_types, chunk, tmp, read_pos, nparams,
                               statements, observed, writes>>
           ELSE LET row == row1.items
                    hs == HeadersAfter(row, headers)
                    c == Append(chunk, row)
                    r == ReconcileRow(table_data_types, observed, hs, row, 1)
                IN  /\ headers' = hs
                    /\ scan_log' = Append(scan_log,
                           entry @@ [out |-> "spooled", row |-> row, after |-> hs])
                    /\ IF AtThreshold(c) /\ ~ChunkSerializable(c)
                       THEN \* line 239: json.dumps raises TypeError
                            /\ Raise("TypeError")
                            /\ chunk' = c
                            /\ UNCHANGED <<table_data_types, tmp, observed, writes>>
                       ELSE /\ IF AtThreshold(c)
                               THEN /\ tmp' = WriteChunk(tmp, c)
                                    /\ writes' = Append(writes, Len(c))
                                    /\ chunk' = ChunkClear(c)
                               ELSE /\ chunk' = c
                                    /\ UNCHANGED <<tmp, writes>>
                            /\ table_data_types' = r.d
                            /\ observed' = r.obs
                            /\ UNCHANGED <<pc, err, tmp_exists>>
                    /\ UNCHANGED <<read_pos, nparams, statements>>
    /\ UNCHANGED db
    /\ UNCHANGED <<up, typeVars, queryVars, serverVars, sheetVars>>

\* The source is exhausted: if len(chunk) > 0: write it, clear it (245-247).
FlushRemainder ==
    /\ pc = "scan"
    /\ IF Len(chunk) > 0 /\ ~ChunkSerializable(chunk)
       THEN /\ Raise("TypeError")
            /\ UNCHANGED <<chunk, tmp, writes>>
       ELSE /\ pc' = "connect"
            /\ IF Len(chunk) > 0
               THEN /\ tmp' = WriteChunk(tmp, chunk)
                    /\ writes' = Append(writes, Len(chunk))
                    /\ chunk' = ChunkClear(chunk)
               ELSE UNCHANGED <<chunk, tmp, writes>>
            /\ UNCHANGED <<err, tmp_exists>>
    /\ UNCHANGED <<headers, table_data_types, read_pos, nparams, statements,
                   scan_log, observed, db>>
    /\ UNCHANGED <<up, typeVars, queryVars, serverVars, sheetVars>>

\* with psycopg2.connect(...) as conn (249-256): the connection may fail.
Connect ==
    /\ pc = "connect"
    /\ \E ok \in BOOLEAN :
          IF ok THEN pc' = "drop" /\ UNCHANGED <<err, tmp_exists>>
          ELSE Raise("psycopg2.Error")
    /\ UNCHANGED <<headers, table_data_types, chunk, tmp, read_pos, nparams,
                   statements, scan_log, observed, writes, db>>
    /\ UNCHANGED <<up, typeVars, queryVars, serverVars, sheetVars>>

\* cur.execute(f'DROP TABLE IF EXISTS "{table_name}"') (258)
DropTable ==
    /\ pc = "drop"
    /\ \E ok \in BOOLEAN :
          /\ statements' = Append(statements, Stmt("DROP", <<>>, 0, <<>>, ok))
          /\ IF ok THEN /\ pc' = "create"
                        /\ db' = [db EXCEPT !.txn = DropIfExists(@)]
                        /\ UNCHANGED <<err, tmp_exists>>
             ELSE Raise("psycopg2.Error") /\ db' = Rollback(db)
    /\ UNCHANGED <<headers, table_data_types, chunk, tmp, read_pos, nparams,
                   scan_log, observed, writes>>
    /\ UNCHANGED <<up, typeVars, queryVars, serverVars, sheetVars>>

\* The column list of the CREATE TABLE statement:
\* ", ".join(f'"{h}" {v.value}' for h, v in table_data_types.items())
CreateColumns(d) == d

\* cur.execute(CREATE TABLE ...); percent_s; query; tmp.seek(0) (259-268).
\* len(headers) raises TypeError when the sheet had no row at all.
CreateTable ==
    /\ pc = "create"
    /\ \E ok \in IF CreateCanSucceed(db.txn) THEN BOOLEAN ELSE {FALSE} :
          /\ statements' = Append(statements,
                 Stmt("CREATE", CreateColumns(table_data_types), 0, <<>>, ok))
          /\ IF ~ok
             THEN /\ Raise("psycopg2.Error")
                  /\ db' = Rollback(db)
                  /\ UNCHANGED <<nparams, read_pos>>
             ELSE IF headers = NoHeaders
             THEN /\ Raise("TypeError")
                  /\ db' = Rollback(db)
                  /\ UNCHANGED <<nparams, read_pos>>
             ELSE /\ nparams' = Len(headers)
                  /\ read_pos' = 0
                  /\ pc' = "insert"
                  /\ db' = [db EXCEPT !.txn = CreateNew(@, CreateColumns(table_data_types))]
                  /\ UNCHANGED <<err, tmp_exists>>
    /\ UNCHANGED <<headers, table_data_types, chunk, tmp, scan_log, observed, writes>>
    /\ UNCHANGED <<up, typeVars, queryVars, serverVars, sheetVars>>

\* What the driver and the engine require of execute_batch(cur, query, rows):
\* every row has one argument per placeholder, and the table has a column
\* for every value of the INSERT.
ExecuteBatchCanSucceed(n, rows, d) ==
    /\ \A i \in 1..Len(rows) : Len(rows[i]) = n
    /\ n <= Len(CreateColumns(d))

\* Variant: an engine error of a batch is caught and the loop goes on.
InsertLineSwallowing ==
    /\ pc = "insert"
    /\ read_pos < Len(tmp)
    /\ read_pos' = read_pos + 1
    /\ LET row == json_loads(tmp[read_pos + 1])
           c == Append(chunk, row)
       IN  IF AtThreshold(c)
           THEN \E ok \in IF ExecuteBatchCanSucceed(nparams, c, table_data_types)
                          THEN BOOLEAN ELSE {FALSE} :
                   /\ statements' = Append(statements, Stmt("INSERT", <<>>, nparams, c, ok))
                   /\ chunk' = ChunkClear(c)
                   /\ db' = IF ok THEN [db EXCEPT !.txn = InsertRows(@, c)] ELSE db
                   /\ UNCHANGED <<pc, err, tmp_exists>>
           ELSE /\ chunk' = c
                /\ UNCHANGED <<pc, err, tmp_exists, statements, db>>
    /\ UNCHANGED <<headers, table_data_types, tmp, nparams, scan_log, observed, writes>>
    /\ UNCHANGED <<up, typeVars, queryVars, serverVars, sheetVars>>

\* Second pass, loop body (269-274): one line of tmp is decoded and added to
\* the batch, which is inserted and cleared at the threshold.
InsertLine ==
    /\ pc = "insert"
    /\ read_pos < Len(tmp)
    /\ read_pos' = read_pos + 1
    /\ LET row == json_loads(tmp[read_pos + 1])
           c == Append(chunk, row)
       IN  IF AtThreshold(c)
           THEN \E ok \in IF ExecuteBatchCanSucceed(nparams, c, table_data_types)
                          THEN BOOLEAN ELSE {FALSE} :
                   /\ statements' = Append(statements, Stmt("INSERT", <<>>, nparams, c, ok))
                   /\ IF ok THEN /\ chunk' = ChunkClear(c)
                                 /\ db' = [db EXCEPT !.txn = InsertRows(@, c)]
                                 /\ UNCHANGED <<pc, err, tmp_exists>>
                      ELSE /\ Raise("psycopg2.Error")
                           /\ chunk' = c
                           /\ db' = Rollback(db)
           ELSE /\ chunk' = c
                /\ UNCHANGED <<pc, err, tmp_exists, statements, db>>
    /\ UNCHANGED <<headers, table_data_types, tmp, nparams, scan_log, observed, writes>>
    /\ UNCHANGED <<up, typeVars, queryVars, serverVars, sheetVars>>

\* Variant: the batch left after the loop is not inserted.
InsertRemainderSkipped ==
    /\ pc = "insert"
    /\ read_pos = Len(tmp)
    /\ pc' = "commit"
    /\ chunk' = <<>>
    /\ UNCHANGED <<err, tmp_exists, statements, db>>
    /\ UNCHANGED <<headers, table_data_types, tmp, read_pos, nparams,
                   scan_log, observed, writes>>
    /\ UNCHANGED <<up, typeVars, queryVars, serverVars, sheetVars>>

\* After the loop (276-278): if chunk: execute_batch(...); del chunk
InsertRemainder ==
    /\ pc = "insert"
    /\ read_pos = Len(tmp)
    /\ IF chunk # <<>>
       THEN \E ok \in IF ExecuteBatchCanSucceed(nparams, chunk, table_data_types)
                      THEN BOOLEAN ELSE {FALSE} :
               /\ statements' = Append(statements,
                                       Stmt("INSERT", <<>>, nparams, chunk, ok))
               /\ IF ok THEN /\ chunk' = <<>>
                             /\ pc' = "commit"
                             /\ db' = [db EXCEPT !.txn = InsertRows(@, chunk)]
                             /\ UNCHANGED <<err, tmp_exists>>
                  ELSE /\ Raise("psycopg2.Error")
                       /\ db' = Rollback(db)
                       /\ UNCHANGED chunk
       ELSE /\ pc' = "commit"
            /\ UNCHANGED <<chunk, err, tmp_exists, statements, db>>
    /\ UNCHANGED <<headers, table_data_types, tmp, read_pos, nparams,
                   scan_log, observed, writes>>
    /\ UNCHANGED <<up, typeVars, queryVars, serverVars, sheetVars>>

\* conn.commit(); cur.close(); both with-blocks are left (280-281).
Commit ==
    /\ pc = "commit"
    /\ \E ok \in BOOLEAN :
          /\ statements' = Append(statements, Stmt("COMMIT", <<>>, 0, <<>>, ok))
          /\ IF ok THEN /\ pc' = "done"
                        /\ tmp_exists' = FALSE
                        /\ db' = CommitTxn(db)
                        /\ UNCHANGED err
             ELSE Raise("psycopg2.Error") /\ db' = Rollback(db)
    /\ UNCHANGED <<headers, table_data_types, chunk, tmp, read_pos, nparams,
                   scan_log, observed, writes>>
    /\ UNCHANGED <<up, typeVars, queryVars, serverVars, sheetVars>>

-----------------------------------------------------------------------------
(* The registry of databases (src/databases.py).                            *)

DatabaseIds == {"db", "other"}

DatabaseParams == {[host |-> "h1"], [host |-> "h2"]}

\* databases = {}
NoDatabases == [i \in {} |-> [host |-> "h1"]]

\* json.dump(databases, f): the members of the JSON object.
RegistryToJson(d) == {<<i, d[i]>> : i \in DOMAIN d}

\* json.load(f)
RegistryFromJson(f) ==
    [i \in {m[1] : m \in f} |-> (CHOOSE m \in f : m[1] = i)[2]]

\* database_id in databases
database_exists(d, database_id) == database_id \in DOMAIN d

\* databases[database_id] = database_params.to_json()
DictAssign(d, database_id, params) ==
    [i \in DOMAIN d \cup {database_id} |-> IF i = database_id THEN params ELSE d[i]]

\* del databases[database_id]
DictDelete(d, database_id) == [i \in DOMAIN d \ {database_id} |-> d[i]]

\* save_databases writing after the old content instead of over it.
SaveAppending(f, d) == f \cup RegistryToJson(d)

\* save_databases: the file is opened with 'w' and the registry dumped.
save_databases(f, d) == RegistryToJson(d)

\* get_database_params_from_id for a registered id
get_database_params_from_id(d, database_id) == d[database_id]

NoParams == [host |-> ""]

\* What is remembered of the operations on the ids.  An entry read from the
\* registry file was put there by a set_database of an earlier run.
LoadedOps(d) ==
    [i \in DatabaseIds |->
        IF i \in DOMAIN d THEN [op |-> "set", params |-> d[i], replaced |-> FALSE]
        ELSE [op |-> "none", params |-> NoParams, replaced |-> FALSE]]

\* initialize_backend: load_databases() has read a file that registers "db".
RegistryLoaded ==
    /\ database_file = {<<"db", [host |-> "h1"]>>}
    /\ databases = RegistryFromJson(database_file)
    /\ last_op = LoadedOps(databases)

\* No request is being handled.
NoRequest ==
    [pc |-> "idle",
     data |-> [fields |-> FALSE, database_id |-> "", query |-> <<>>,
               sub_query |-> <<>>, output_type |-> "", sheet_name |-> ""],
     checked |-> FALSE, status |-> 0, error |-> "", file |-> FALSE, link |-> FALSE]

ServerIdle == hq = NoRequest

\* No call into google_api is being made.
NoSheetCall ==
    [pc |-> "idle", fn |-> "", table |-> <<>>, sheet_name |-> "",
     only_one_sheet |-> FALSE, sheet_already_exists |-> FALSE, row_index |-> 0,
     rest |-> <<>>, raised |-> "none", created_temp |-> FALSE]

SheetIdle ==
    /\ gs = [sheets |-> <<>>, requests |-> <<>>]
    /\ gp = NoSheetCall

-----------------------------------------------------------------------------
(* process_excel_file (src/main.py): the upload is staged, checked, handed  *)
(* to xlsx_to_sql and removed.                                             *)

\* Text of file names and table names: a sequence of characters.
ALLOWED_EXTENSIONS ==
    { <<"x", "l", "s", "x">>, <<"x", "l", "s">>, <<"x", "l", "s", "m">> }

LowerOf == ("X" :> "x") @@ ("L" :> "l") @@ ("S" :> "s") @@ ("M" :> "m")

\* str.lower()
lower(t) == [i \in 1..Len(t) |-> IF t[i] \in DOMAIN LowerOf THEN LowerOf[t[i]] ELSE t[i]]

\* '.' in filename
HasDot(filename) == \E i \in 1..Len(filename) : filename[i] = "."

\* filename.rsplit('.', 1)[1].lower()
get_file_extension(filename) ==
    LET dot == CHOOSE i \in 1..Len(filename) :
                   /\ filename[i] = "."
                   /\ \A j \in (i + 1)..Len(filename) : filename[j] # "."
    IN  lower(SubSeq(filename, dot + 1, Len(filename)))

allowed_file(filename, allowed_extensions) ==
    HasDot(filename) /\ get_file_extension(filename) \in allowed_extensions

ERROR_MESSAGES ==
    [no_file |-> "Request has no file part",
     no_config |-> "Request has no config part",
     no_file_selected |-> "No file selected",
     database_not_found |-> "Database not found",
     file_type_not_allowed |-> "File type not allowed"]

\* The requests sent to /upload-table.
UploadRequest(has_file, has_config, filename, config_filename, database_id, table_name) ==
    [has_file |-> has_file, has_config |-> has_config, filename |-> filename,
     config_filename |-> config_filename, database_id |-> database_id,
     table_name |-> table_name]

UploadRequests ==
    LET xlsx == <<"a", ".", "x", "l", "s", "x">>
        json == <<"c", ".", "j", "s", "o", "n">>
    IN  { UploadRequest(TRUE, TRUE, xlsx, json, "db", <<"t">>),
          UploadRequest(TRUE, TRUE, <<"a", ".", "X", "L", "S">>, json, "db",
                        <<"t", "\"", "x">>),
          UploadRequest(FALSE, TRUE, xlsx, json, "db", <<"t">>),
          UploadRequest(TRUE, FALSE, xlsx, json, "db", <<"t">>),
          UploadRequest(TRUE, TRUE, <<>>, json, "db", <<"t">>),
          UploadRequest(TRUE, TRUE, xlsx, <<>>, "db", <<"t">>),
          UploadRequest(TRUE, TRUE, <<"d", ".", "c", "s", "v">>, json, "db", <<"t">>),
          UploadRequest(TRUE, TRUE, <<"a">>, json, "db", <<"t">>),
          UploadRequest(TRUE, TRUE, xlsx, json, "nope", <<"t">>) }

\* Variant: the database id is not looked up.
UploadErrorNoDatabaseCheck(req, d) ==
    IF ~req.has_file THEN ERROR_MESSAGES.no_file
    ELSE IF ~req.has_config THEN ERROR_MESSAGES.no_config
    ELSE IF req.filename = <<>> \/ req.config_filename = <<>>
    THEN ERROR_MESSAGES.no_file_selected
    ELSE IF ~allowed_file(req.filename, ALLOWED_EXTENSIONS)
    THEN ERROR_MESSAGES.file_type_not_allowed
    ELSE ""

\* The checks of upload_table (156-174): the message of the first one that
\* fails, "" when all pass.
UploadError(req, d) ==
    IF ~req.has_file THEN ERROR_MESSAGES.no_file
    ELSE IF ~req.has_config THEN ERROR_MESSAGES.no_config
    ELSE IF req.filename = <<>> \/ req.config_filename = <<>>
    THEN ERROR_MESSAGES.no_file_selected
    ELSE IF ~allowed_file(req.filename, ALLOWED_EXTENSIONS)
    THEN ERROR_MESSAGES.file_type_not_allowed
    ELSE IF ~database_exists(d, req.database_id) THEN ERROR_MESSAGES.database_not_found
    ELSE ""

\* upload_table up to the call of process_excel_file (155-176); a failed
\* check raises ExcelUploadError, answered with status 400 (179-180).
UploadTable(req) ==
    /\ up.pc = "request"
    /\ LET e == UploadError(req, databases)
       IN  up' = IF e = ""
                 THEN [up EXCEPT !.pc = "save", !.req = req]
                 ELSE [up EXCEPT !.pc = "rejected", !.req = req,
                                 !.exc = "ExcelUploadError", !.status = 400, !.error = e]
    /\ UNCHANGED <<pc, headers, table_data_types, chunk, tmp, tmp_exists, read_pos,
                   nparams, statements, err, scan_log, observed, writes, db>>
    /\ UNCHANGED <<typeVars, queryVars, serverVars, sheetVars>>

\* process_excel_file is over (177-183): success, or 400 for ExcelUploadError
\* and 500 for any other exception.
UploadResponse(u) ==
    CASE u.pc = "returned" -> [u EXCEPT !.status = 200]
      [] u.exc = "ExcelUploadError" -> [u EXCEPT !.status = 400, !.error = "Sheet not found"]
      [] OTHER -> [u EXCEPT !.status = 500, !.error = "An unexpected error occurred"]

\* file.save(file_path) (120): a failed save may leave a partial file.
SaveFile ==
    /\ up.pc = "save"
    /\ \E ok \in BOOLEAN :
          IF ok THEN up' = [up EXCEPT !.pc = "sheets", !.staged = TRUE]
          ELSE \E left \in BOOLEAN :
                  up' = [up EXCEPT !.pc = "finally", !.staged = left, !.exc = "OSError"]
    /\ UNCHANGED <<pc, headers, table_data_types, chunk, tmp, tmp_exists, read_pos,
                   nparams, statements, err, scan_log, observed, writes, db>>
    /\ UNCHANGED <<typeVars, queryVars, serverVars, sheetVars>>

\* get_sheet_names_xlsx; the sheet_name check; get_database_params_from_id
\* (121-126).
CheckSheet ==
    /\ up.pc = "sheets"
    /\ \E outcome \in {"found", "not a workbook", "sheet missing"} :
          up' = CASE outcome = "found" ->
                        IF database_exists(databases, up.req.database_id)
                        THEN [up EXCEPT !.pc = "call"]
                        ELSE [up EXCEPT !.pc = "finally", !.exc = "KeyError"]
                  [] outcome = "not a workbook" ->
                        [up EXCEPT !.pc = "finally", !.exc = "Exception"]
                  [] outcome = "sheet missing" ->
                        [up EXCEPT !.pc = "finally", !.exc = "ExcelUploadError"]
    /\ UNCHANGED <<pc, headers, table_data_types, chunk, tmp, tmp_exists, read_pos,
                   nparams, statements, err, scan_log, observed, writes, db>>
    /\ UNCHANGED <<typeVars, queryVars, serverVars, sheetVars>>

\* os.remove(file_path)
RemoveFile(exists) == FALSE

\* finally: os.remove(file_path) (133-137); process_excel_file returns, or
\* the pending exception goes on to upload_table, which answers (177-183).
RemoveStaged ==
    /\ \/ up.pc = "finally"
       \/ up.pc = "xlsx" /\ pc \in {"done", "raised"}
    /\ up' = UploadResponse([up EXCEPT
                !.pc = IF up.pc = "xlsx" /\ pc = "done" THEN "returned" ELSE "raised",
                !.staged = RemoveFile(up.staged),
                !.exc = IF up.pc = "xlsx" /\ pc = "raised" THEN err.type ELSE up.exc])
    /\ UNCHANGED <<pc, headers, table_data_types, chunk, tmp, tmp_exists, read_pos,
                   nparams, statements, err, scan_log, observed, writes, db>>
    /\ UNCHANGED <<typeVars, queryVars, serverVars, sheetVars>>

-----------------------------------------------------------------------------
(* run_query (src/databases.py) over postgres.execute_query.  A text is a   *)
(* sequence of characters.                                                  *)

\* Cap on the length of the substituted text.
MaxText == 12

\* Cap on the data rows of a table handed to create_xlsx.
MaxDownloadRows == 3

\* Cap on the data rows of a table written to a spreadsheet.
MaxSheetRows == 4

\* chunk_size of place_chunks, scaled down.
place_chunk_size == 2

\* Values of a result set.
SqlStr(c) == [k |-> "str", n |-> 0, c |-> c]
SqlInt(n) == [k |-> "int", n |-> n, c |-> <<>>]
SqlNull == [k |-> "NoneType", n |-> 0, c |-> <<>>]

DigitChar == <<"0", "1", "2", "3", "4", "5", "6", "7", "8", "9">>

RECURSIVE Digits(_)
Digits(n) ==
    IF n < 10 THEN <<DigitChar[n + 1]>>
    ELSE Digits(n \div 10) \o <<DigitChar[(n % 10) + 1]>>

\* f'{v}'
Render(v) ==
    CASE v.k = "str" -> v.c
      [] v.k = "int" -> Digits(v.n)
      [] v.k = "NoneType" -> <<"N", "o", "n", "e">>

\* key = '{{%s}}' % k
Key(k) == <<"{", "{">> \o k \o <<"}", "}">>

MatchAt(q, key, p) ==
    /\ p + Len(key) - 1 <= Len(q)
    /\ SubSeq(q, p, p + Len(key) - 1) = key

\* key in q
Contains(q, key) == \E p \in 1..Len(q) : MatchAt(q, key, p)

\* q.replace(key, v): every occurrence, left to right, without overlap
RECURSIVE ReplaceFrom(_, _, _, _)
ReplaceFrom(q, key, v, p) ==
    IF p > Len(q) THEN <<>>
    ELSE IF MatchAt(q, key, p) THEN v \o ReplaceFrom(q, key, v, p + Len(key))
    ELSE <<q[p]>> \o ReplaceFrom(q, key, v, p + 1)

Replace(q, key, v) == ReplaceFrom(q, key, v, 1)

\* zip(headers, row) stops at the shorter of the two.
ZipLen(hs, row) == IF Len(hs) <= Len(row) THEN Len(hs) ELSE Len(row)

\* The arguments of the calls.
NoSubQuery == <<"sub_query is None">>

SubQueries == {NoSubQuery, <<"d">>}

Templates ==
    { <<"s", "{", "{", "a", "}", "}">>,
      <<"{", "{", "a", "}", "}", "{", "{", "b", "}", "}">>,
      <<"{", "{", "a", "}", "}", "}", "}">>,
      <<"{", "{", "a", "}", "}", "{", "{", "a", "}", "}">>,
      <<"s">> }

\* What the engine does with a statement.
Rows(header, rows) == [kind |-> "rows", msg |-> "", header |-> header, rows |-> rows]

Failure(kind, msg) == [kind |-> kind, msg |-> msg, header |-> <<>>, rows |-> <<>>]

Failures ==
    { Failure("connect error", "connection refused"),
      Failure("execute error", "syntax error"),
      Failure("no result set", "") }

DriverTables ==
    { Rows(<< <<"a">> >>, <<>>),
      Rows(<< <<"a">> >>, << <<SqlInt(1)>>, <<SqlInt(20)>> >>),
      Rows(<< <<"a">> >>, << <<SqlNull>> >>),
      Rows(<< <<"a">>, <<"b">> >>,
           << <<SqlStr(<<"x">>), SqlStr(<<"{", "{", "a", "}", "}">>)>> >>),
      Rows(<< <<"a">> >>, << <<SqlStr(<<"{", "{", "a", "}", "}", "x">>)>> >>),
      Rows(<< <<"a">> >>, << <<SqlStr(<<"{", "{", "a", "}", "}">>)>> >>),
      Rows(<< <<"a">> >>, << <<SqlStr(<<"{", "{", "a">>)>> >>),
      Rows(<< <<"a">> >>, << <<SqlStr(<<"a", "}", "}", "{", "{">>)>> >>) }

ResultTables ==
    { Rows(<< <<"c">> >>, << <<SqlInt(1)>> >>),
      Rows(<< <<"d">> >>, << <<SqlInt(2)>>, <<SqlInt(3)>> >>),
      Rows(<< <<"c">> >>, <<>>) }

\* postgres.execute_query: connect, execute, commit, then the header from
\* cur.description and the rows.  cur.description is None after a statement
\* without a result set, and iterating it raises TypeError.
execute_query(out) ==
    CASE out.kind \in {"connect error", "execute error"} ->
            [raised |-> "psycopg2.Error", msg |-> out.msg, v |-> <<>>]
      [] out.kind = "no result set" ->
            [raised |-> "TypeError", msg |-> "'NoneType' object is not iterable",
             v |-> <<>>]
      [] out.kind = "rows" ->
            [raised |-> "none", msg |-> "", v |-> <<out.header>> \o out.rows]

\* run_query without sub_query (69-77): psycopg2.Error becomes {'error': str(e)},
\* any other exception goes on to the caller.
RunQueryPlain(r) ==
    CASE r.raised = "psycopg2.Error" -> [kind |-> "Error", msg |-> r.msg, v |-> <<>>]
      [] r.raised = "none" -> [kind |-> "Table", msg |-> "", v |-> r.v]
      [] OTHER -> [kind |-> "raise", msg |-> r.raised, v |-> <<>>]

NoResult == [kind |-> "none", msg |-> "", v |-> <<>>]

\* databases[database_id] of get_database_params_from_id (70, 117) raised.
KeyErrorRaised == [kind |-> "raise", msg |-> "KeyError", v |-> <<>>]

NoCall ==
    [pc |-> "idle", database_id |-> "db", query |-> <<>>, sub_query |-> NoSubQuery, headers |-> <<>>,
     table |-> <<>>, i |-> 0, k |-> 0, q |-> <<>>, new_headers |-> <<>>,
     new_table |-> <<>>, ret |-> NoResult, hazard |-> FALSE]

QueryIdle ==
    /\ rq = NoCall
    /\ execs = <<>>
    /\ subst_log = <<>>

\* One call of postgres.execute_query.
Exec(text, site, row, out) == [text |-> text, site |-> site, row |-> row, out |-> out]

\* run_query(database_id, query, sub_query) is called (58-69).
Call(query, sub_query) ==
    /\ rq.pc = "idle"
    /\ rq' = [NoCall EXCEPT !.pc = IF sub_query = NoSubQuery THEN "plain" ELSE "driver",
                            !.query = query,
                            !.sub_query = sub_query]
    /\ UNCHANGED <<execs, subst_log>>
    /\ UNCHANGED <<xlsxVars, typeVars, serverVars, sheetVars>>

\* sub_query is None (69-77): the query is executed and its result returned.
RunPlain ==
    /\ rq.pc = "plain"
    /\ \/ /\ ~database_exists(databases, rq.database_id)
          /\ rq' = [rq EXCEPT !.pc = "raised", !.ret = KeyErrorRaised]
          /\ UNCHANGED execs
       \/ /\ database_exists(databases, rq.database_id)
          /\ \E out \in Failures \cup ResultTables :
                LET r == RunQueryPlain(execute_query(out))
                IN  /\ execs' = Append(execs, Exec(rq.query, "plain", <<>>, out))
                    /\ rq' = [rq EXCEPT !.pc = IF r.kind = "raise" THEN "raised" ELSE "returned",
                                        !.ret = r]
    /\ UNCHANGED subst_log
    /\ UNCHANGED <<xlsxVars, typeVars, serverVars, sheetVars>>

\* result = run_query(database_id, sub_query) and what follows up to the
\* loop (79-86).
RunDriver ==
    /\ rq.pc = "driver"
    /\ \/ /\ ~database_exists(databases, rq.database_id)
          /\ rq' = [rq EXCEPT !.pc = "raised", !.ret = KeyErrorRaised]
          /\ UNCHANGED execs
       \/ /\ database_exists(databases, rq.database_id)
          /\ \E out \in Failures \cup DriverTables :
                LET r == RunQueryPlain(execute_query(out))
                IN  /\ execs' = Append(execs, Exec(rq.sub_query, "driver", <<>>, out))
                    /\ rq' = CASE r.kind = "raise" -> [rq EXCEPT !.pc = "raised", !.ret = r]
                               [] r.kind = "Error" -> [rq EXCEPT !.pc = "returned", !.ret = r]
                               [] r.kind = "Table" ->
                                     [rq EXCEPT !.pc = "row",
                                                !.headers = r.v[1],
                                                !.table = Tail(r.v),
                                                !.i = 1]
    /\ UNCHANGED subst_log
    /\ UNCHANGED <<xlsxVars, typeVars, serverVars, sheetVars>>

\* Variant: the header of the driver Table is returned.
NextRowDriverHeader ==
    /\ rq.pc = "row"
    /\ rq' = IF rq.i > Len(rq.table)
             THEN [rq EXCEPT !.pc = "returned",
                             !.ret = [kind |-> "Table", msg |-> "",
                                      v |-> <<rq.headers>> \o rq.new_table]]
             ELSE [rq EXCEPT !.pc = "col", !.q = rq.query, !.k = 1]
    /\ UNCHANGED <<execs, subst_log>>
    /\ UNCHANGED <<xlsxVars, typeVars, serverVars, sheetVars>>

\* for row in table: q = query (89-90); after the last row,
\* return [new_headers] + new_table (104).
NextRow ==
    /\ rq.pc = "row"
    /\ rq' = IF rq.i > Len(rq.table)
             THEN [rq EXCEPT !.pc = "returned",
                             !.ret = [kind |-> "Table", msg |-> "",
                                      v |-> <<rq.new_headers>> \o rq.new_table]]
             ELSE [rq EXCEPT !.pc = "col", !.q = rq.query, !.k = 1]
    /\ UNCHANGED <<execs, subst_log>>
    /\ UNCHANGED <<xlsxVars, typeVars, serverVars, sheetVars>>

\* for k, v in zip(headers, row): key = '{{%s}}' % k (91-92)
NextColumn ==
    /\ rq.pc = "col"
    /\ rq' = IF rq.k > ZipLen(rq.headers, rq.table[rq.i])
             THEN [rq EXCEPT !.pc = "exec"]
             ELSE [rq EXCEPT !.pc = "while"]
    /\ UNCHANGED <<execs, subst_log>>
    /\ UNCHANGED <<xlsxVars, typeVars, serverVars, sheetVars>>

\* Variant: if key in q, one replace, instead of the while loop.
ReplaceStepOnce ==
    /\ rq.pc = "while"
    /\ LET key == Key(rq.headers[rq.k])
           v == rq.table[rq.i][rq.k]
           q2 == IF Contains(rq.q, key) THEN Replace(rq.q, key, Render(v)) ELSE rq.q
       IN  /\ Len(q2) <= MaxText
           /\ rq' = [rq EXCEPT !.q = q2, !.k = @ + 1, !.pc = "col",
                               !.hazard = @ \/ (Contains(rq.q, key) /\ Contains(Render(v), key))]
           /\ subst_log' = Append(subst_log,
                 [row |-> rq.i, col |-> rq.k, key |-> key, text |-> q2])
    /\ UNCHANGED execs
    /\ UNCHANGED <<xlsxVars, typeVars, serverVars, sheetVars>>

\* while key in q: q = q.replace(key, f'{v}') (93-94): one test of the
\* condition, and one replace when it holds.
ReplaceStep ==
    /\ rq.pc = "while"
    /\ LET key == Key(rq.headers[rq.k])
           v == rq.table[rq.i][rq.k]
       IN  IF Contains(rq.q, key)
           THEN /\ Len(Replace(rq.q, key, Render(v))) <= MaxText
                /\ rq' = [rq EXCEPT !.q = Replace(rq.q, key, Render(v)),
                                    !.hazard = @ \/ Contains(Render(v), key)]
                /\ UNCHANGED subst_log
           ELSE /\ rq' = [rq EXCEPT !.k = @ + 1, !.pc = "col"]
                /\ subst_log' = Append(subst_log,
                      [row |-> rq.i, col |-> rq.k, key |-> key, text |-> rq.q])
    /\ UNCHANGED execs
    /\ UNCHANGED <<xlsxVars, typeVars, serverVars, sheetVars>>

\* Variant: an Error of a template execution is skipped and the loop goes on.
RunTemplateSkippingError ==
    /\ rq.pc = "exec"
    /\ \/ /\ ~database_exists(databases, rq.database_id)
          /\ rq' = [rq EXCEPT !.pc = "raised", !.ret = KeyErrorRaised]
          /\ UNCHANGED execs
       \/ /\ database_exists(databases, rq.database_id)
          /\ \E out \in Failures \cup ResultTables :
                LET r == RunQueryPlain(execute_query(out))
                IN  /\ execs' = Append(execs, Exec(rq.q, "template", rq.table[rq.i], out))
                    /\ rq' = CASE r.kind = "raise" -> [rq EXCEPT !.pc = "raised", !.ret = r]
                               [] r.kind = "Error" -> [rq EXCEPT !.pc = "row", !.i = @ + 1]
                               [] r.kind = "Table" ->
                                     [rq EXCEPT !.pc = "row",
                                                !.new_headers = r.v[1],
                                                !.new_table = @ \o Tail(r.v),
                                                !.i = @ + 1]
    /\ UNCHANGED subst_log
    /\ UNCHANGED <<xlsxVars, typeVars, serverVars, sheetVars>>

\* result = run_query(database_id, q) and the rest of the loop body (96-102).
RunTemplate ==
    /\ rq.pc = "exec"
    /\ \/ /\ ~database_exists(databases, rq.database_id)
          /\ rq' = [rq EXCEPT !.pc = "raised", !.ret = KeyErrorRaised]
          /\ UNCHANGED execs
       \/ /\ database_exists(databases, rq.database_id)
          /\ \E out \in Failures \cup ResultTables :
                LET r == RunQueryPlain(execute_query(out))
                IN  /\ execs' = Append(execs, Exec(rq.q, "template", rq.table[rq.i], out))
                    /\ rq' = CASE r.kind = "raise" -> [rq EXCEPT !.pc = "raised", !.ret = r]
                               [] r.kind = "Error" -> [rq EXCEPT !.pc = "returned", !.ret = r]
                               [] r.kind = "Table" ->
                                     [rq EXCEPT !.pc = "row",
                                                !.new_headers = r.v[1],
                                                !.new_table = @ \o Tail(r.v),
                                                !.i = @ + 1]
    /\ UNCHANGED subst_log
    /\ UNCHANGED <<xlsxVars, typeVars, serverVars, sheetVars>>

-----------------------------------------------------------------------------
(* The type functions on their own: every kind of value, every previous    *)
(* type.                                                                   *)

Pending == [fn |-> "none", t |-> "none"]

TypeValues ==
    { None, PyBool(TRUE), PyBool(FALSE),
      PyStr("x"), PyStr(""), PyStr("1"),
      PyFloat(FALSE, <<1>>, "5"), PyFloat(FALSE, <<1>>, "0"), PyFloat(TRUE, <<3>>, "25"),
      PyObj("list", "[1, 2]"), PyObj("dict", "{'a': 1}"),
      PyObj("datetime", "2024-01-01 10:00:00"), PyObj("date", "2024-01-01"),
      PyObj("time", "10:00:00"), PyObj("timedelta", "1 day"), PyObj("Decimal", "1.5") }
    \cup { PyInt(FALSE, <<>>) }
    \cup { PyInt(s, mag) : s \in BOOLEAN,
           mag \in { <<1>>, <<2, 147483644>>, <<2, 147483645>>, <<2, 147483646>>,
                     <<2, 147483648>>, <<999, 0>>,
                     <<9, 223372036, 854775804>>, <<9, 223372036, 854775805>>,
                     <<9, 223372036, 854775806>>, <<9, 223372036, 854775808>>,
                     <<1, 0, 0, 0>> } }

TypeInit ==
    /\ XlsxInit
    /\ QueryIdle
    /\ RegistryLoaded
    /\ ServerIdle
    /\ SheetIdle
    /\ arg_val \in TypeValues
    /\ arg_prev \in DataTypes
    /\ ret = Pending

\* A call of convert_python_type_to_postgres(arg_val).
Classify ==
    /\ ret.fn # "convert_python_type_to_postgres"
    /\ ret' = [fn |-> "convert_python_type_to_postgres",
               t |-> convert_python_type_to_postgres(arg_val)]
    /\ UNCHANGED <<arg_val, arg_prev>>
    /\ UNCHANGED <<xlsxVars, queryVars, serverVars, sheetVars>>

\* A call of determine_data_type(arg_prev, arg_val).
Determine ==
    /\ ret.fn # "determine_data_type"
    /\ ret' = [fn |-> "determine_data_type", t |-> determine_data_type(arg_prev, arg_val)]
    /\ UNCHANGED <<arg_val, arg_prev>>
    /\ UNCHANGED <<xlsxVars, queryVars, serverVars, sheetVars>>

TypeNext == Classify \/ Determine

TypeSpec == TypeInit /\ [][TypeNext]_vars

-----------------------------------------------------------------------------
(* The ingestion run.                                                      *)

Init ==
    /\ XlsxInit
    /\ QueryIdle
    /\ RegistryLoaded
    /\ ServerIdle
    /\ SheetIdle
    /\ arg_val = None
    /\ arg_prev = "boolean"
    /\ ret = Pending

Next ==
    \/ \E req \in UploadRequests : UploadTable(req)
    \/ SaveFile
    \/ CheckSheet
    \/ EnterXlsx
    \/ RemoveStaged
    \/ \E row \in HeaderRows : ReadHeader(row)
    \/ \E row \in DataRows : ScanRow(row)
    \/ FlushRemainder
    \/ Connect
    \/ DropTable
    \/ CreateTable
    \/ InsertLine
    \/ InsertRemainder
    \/ Commit

Spec == Init /\ [][Next]_vars

\* run_query on its own.
QueryInit ==
    /\ XlsxInit
    /\ db.committed = Absent
    /\ QueryIdle
    /\ RegistryLoaded
    /\ ServerIdle
    /\ SheetIdle
    /\ arg_val = None
    /\ arg_prev = "boolean"
    /\ ret = Pending

QueryNext ==
    \/ \E query \in Templates, sub_query \in SubQueries : Call(query, sub_query)
    \/ RunPlain
    \/ RunDriver
    \/ NextRow
    \/ NextColumn
    \/ ReplaceStep
    \/ RunTemplate

\* The interpreter keeps running the call: a step that can be taken is taken.
QuerySpec == QueryInit /\ [][QueryNext]_vars /\ WF_vars(QueryNext)

-----------------------------------------------------------------------------
(* google_api: the spreadsheet and the calls that write a table to it.     *)

\* The sheet add_table_and_clear_sheet makes so that the target can be deleted.
TempSheet == "__temp__"

Sheet(title, cols, rows) == [title |-> title, cols |-> cols, rows |-> rows]

\* get_sheets(spreadsheet_id, names=True)
get_sheets(g) == [i \in 1..Len(g.sheets) |-> g.sheets[i].title]

HasSheet(g, name) == \E i \in 1..Len(g.sheets) : g.sheets[i].title = name

\* f'A{row_index}'
CellRef(row_index) == "A" \o ToString(row_index)

CellRefs == {CellRef(r) : r \in 1..(2 * MaxSheetRows + 2)}

\* One request sent to the spreadsheet service: what it asks, whether the
\* service carried it out, and whether the spreadsheet held a single sheet
\* when it arrived.
Request(op, sheet, cell, rows, ok, g) ==
    [op |-> op, sheet |-> sheet, cell |-> cell, rows |-> rows, ok |-> ok,
     only_sheet |-> Len(g.sheets) = 1]

Sent(g, r) == [g EXCEPT !.requests = Append(@, r)]

\* create_sheet: an addSheet request.  The service refuses a title that is
\* already taken; a new sheet has the service's default grid.
create_sheet(g, sheet) ==
    LET ok == ~HasSheet(g, sheet)
        g1 == Sent(g, Request("addSheet", sheet, "", <<>>, ok, g))
    IN  IF ok
        THEN [gs |-> [g1 EXCEPT !.sheets = Append(@, Sheet(sheet, 26, 1000))],
              raised |-> "none"]
        ELSE [gs |-> g1, raised |-> "HttpError"]

\* delete_sheet: sheet_id_from_name takes element 0 of the matching ids
\* (IndexError when there is none), then a deleteSheet request, which the
\* service refuses for the only sheet of a spreadsheet.
delete_sheet(g, sheet_name) ==
    IF ~HasSheet(g, sheet_name) THEN [gs |-> g, raised |-> "IndexError"]
    ELSE LET ok == Len(g.sheets) > 1
             g1 == Sent(g, Request("deleteSheet", sheet_name, "", <<>>, ok, g))
         IN  IF ok
             THEN [gs |-> [g1 EXCEPT !.sheets =
                               SelectSeq(@, LAMBDA s : s.title # sheet_name)],
                   raised |-> "none"]
             ELSE [gs |-> g1, raised |-> "HttpError"]

\* add_table_to_sheet(spreadsheet_id, table, sheet, cell): nothing is sent for
\* an empty table; otherwise one values().update request for the range
\* f'{sheet}!{cell}:{end_cell}'.  The service refuses a range whose sheet does
\* not exist; accepted says what it does with the range when the sheet exists
\* and the cell part is not a cell reference.
add_table_to_sheet(g, table, sheet, cell, accepted) ==
    IF Len(table) = 0 THEN [gs |-> g, raised |-> "none"]
    ELSE LET ok == HasSheet(g, sheet) /\ (cell \in CellRefs \/ accepted)
         IN  [gs |-> Sent(g, Request("update", sheet, cell, table, ok, g)),
              raised |-> IF ok THEN "none" ELSE "HttpError"]

\* get_sheet_width_then_height: None when no sheet has the title.
get_sheet_width_then_height(g, sheet_name) ==
    IF ~HasSheet(g, sheet_name) THEN <<>>
    ELSE LET i == CHOOSE i \in 1..Len(g.sheets) : g.sheets[i].title = sheet_name
         IN  <<g.sheets[i].cols, g.sheets[i].rows>>

Max(a, b) == IF a > b THEN a ELSE b

\* resize_sheet: appendDimension requests for the columns and rows to add.
resize_sheet(g, sheet_name, appended_columns, appended_row) ==
    LET g1 == Sent(g, Request("appendDimension", sheet_name, "", <<>>, TRUE, g))
    IN  [g1 EXCEPT !.sheets =
            [i \in 1..Len(@) |->
                IF @[i].title = sheet_name
                THEN Sheet(sheet_name, @[i].cols + appended_columns,
                           @[i].rows + appended_row)
                ELSE @[i]]]

\* chunks(lst, n): the piece lst[0:n] it yields first and what is left for
\* the later pieces.
FirstChunk(lst, n) == SubSeq(lst, 1, IF Len(lst) < n THEN Len(lst) ELSE n)

AfterFirstChunk(lst, n) == SubSeq(lst, n + 1, Len(lst))

\* The tables handed to the calls: a header row and data rows, the empty
\* table, and the table of one empty row.
TableOf(n, w) ==
    [i \in 1..n |-> [j \in 1..w |-> IF i = 1 THEN SqlStr(<<"c">>) ELSE SqlInt(10 * i + j)]]

SheetTables ==
    {TableOf(n, w) : n \in 0..(MaxSheetRows + 1), w \in {1, 3}} \cup {<< <<>> >>}

SheetNames == {"Data"}

\* The spreadsheets a call can find.
Spreadsheets ==
    { << Sheet("Data", 2, 3) >>,
      << Sheet("Sheet1", 26, 1000) >>,
      << Sheet("Sheet1", 26, 1000), Sheet("Data", 26, 1000) >>,
      << Sheet("Data", 2, 3), Sheet("A1", 26, 1000) >>,
      << Sheet("Data", 26, 1000), Sheet(TempSheet, 26, 1000) >> }

\* add_table_and_clear_sheet up to its first request (502-509): the sheet
\* names are read once and the two flags computed from them.
EnterAddTable(g, table, sheet_name) ==
    LET sheets == get_sheets(g)
        only_one_sheet == Len(sheets) = 1
        sheet_already_exists == \E i \in 1..Len(sheets) : sheets[i] = sheet_name
    IN  [NoSheetCall EXCEPT !.fn = "add_table_and_clear_sheet",
                            !.table = table,
                            !.sheet_name = sheet_name,
                            !.only_one_sheet = only_one_sheet,
                            !.sheet_already_exists = sheet_already_exists,
                            !.pc = IF ~sheet_already_exists THEN "create_target"
                                   ELSE IF only_one_sheet THEN "create_temp"
                                   ELSE "delete_target"]

\* A request was made: the call goes on at `next` unless it raised.
AfterRequest(p, r, next) ==
    IF r.raised = "none" THEN [p EXCEPT !.pc = next]
    ELSE [p EXCEPT !.pc = "raised", !.raised = r.raised]

\* add_table_and_clear_sheet(spreadsheet_id, table, sheet_name) is called.
AddTableAndClearSheet(table, sheet_name) ==
    /\ gp.pc = "idle"
    /\ gp' = EnterAddTable(gs, table, sheet_name)
    /\ UNCHANGED gs
    /\ UNCHANGED <<xlsxVars, typeVars, queryVars, serverVars>>

\* create_sheet(spreadsheet_id, '__temp__') (511-513)
CreateTemp ==
    /\ gp.pc = "create_temp"
    /\ LET r == create_sheet(gs, TempSheet)
       IN  /\ gs' = r.gs
           /\ gp' = AfterRequest([gp EXCEPT !.created_temp = r.raised = "none"], r,
                                 "delete_target")
    /\ UNCHANGED <<xlsxVars, typeVars, queryVars, serverVars>>

\* delete_sheet(spreadsheet_id, sheet_name) (514-515)
DeleteTarget ==
    /\ gp.pc = "delete_target"
    /\ LET r == delete_sheet(gs, gp.sheet_name)
       IN  /\ gs' = r.gs
           /\ gp' = AfterRequest(gp, r, IF gp.only_one_sheet THEN "delete_temp"
                                        ELSE "create_target")
    /\ UNCHANGED <<xlsxVars, typeVars, queryVars, serverVars>>

\* delete_sheet(spreadsheet_id, '__temp__') (516-518)
DeleteTemp ==
    /\ gp.pc = "delete_temp"
    /\ LET r == delete_sheet(gs, TempSheet)
       IN  /\ gs' = r.gs
           /\ gp' = AfterRequest(gp, r, "create_target")
    /\ UNCHANGED <<xlsxVars, typeVars, queryVars, serverVars>>

\* create_sheet(spreadsheet_id, sheet_name) (520-521)
CreateTarget ==
    /\ gp.pc = "create_target"
    /\ LET r == create_sheet(gs, gp.sheet_name)
       IN  /\ gs' = r.gs
           /\ gp' = AfterRequest(gp, r, "write")
    /\ UNCHANGED <<xlsxVars, typeVars, queryVars, serverVars>>

\* add_table_to_sheet(spreadsheet_id, table, sheet_name, cell=cell) (523-528):
\* the whole table in one request.
WriteTable ==
    /\ gp.pc = "write"
    /\ LET r == add_table_to_sheet(gs, gp.table, gp.sheet_name, "A1", TRUE)
       IN  /\ gs' = r.gs
           /\ gp' = AfterRequest(gp, r, "done")
    /\ UNCHANGED <<xlsxVars, typeVars, queryVars, serverVars>>

\* place_chunks up to its loop (540-565): the size of the sheet is looked up,
\* an empty table or an empty first row ends the call, and a sheet smaller
\* than the table is resized first.
EnterPlaceChunks(g, table, sheet_name) ==
    LET size == get_sheet_width_then_height(g, sheet_name)
        p == [NoSheetCall EXCEPT !.fn = "place_chunks", !.table = table,
                                 !.sheet_name = sheet_name]
    IN  IF table = <<>> THEN [p EXCEPT !.pc = "done"]
        ELSE IF table[1] = <<>> THEN [p EXCEPT !.pc = "done"]
        ELSE IF size = <<>> THEN [p EXCEPT !.pc = "raised", !.raised = "TypeError"]
        ELSE LET more_rows_in_table_than_sheet == (Len(table) + 1) - size[2] > 0
                 table_wider_than_sheet == (Len(table[1]) + 1) - size[1] > 0
             IN  [p EXCEPT !.pc = IF more_rows_in_table_than_sheet \/ table_wider_than_sheet
                                  THEN "resize" ELSE "chunk",
                           !.row_index = 1,
                           !.rest = table]

\* place_chunks(spreadsheet_id, sheet_name, table, chunk_size) is called.
PlaceChunks(table, sheet_name) ==
    /\ gp.pc = "idle"
    /\ gp' = EnterPlaceChunks(gs, table, sheet_name)
    /\ UNCHANGED gs
    /\ UNCHANGED <<xlsxVars, typeVars, queryVars, serverVars>>

\* resize_sheet(...) (551-558)
ResizeSheet ==
    /\ gp.pc = "resize"
    /\ LET size == get_sheet_width_then_height(gs, gp.sheet_name)
       IN  gs' = resize_sheet(gs, gp.sheet_name,
                              Max(0, (Len(gp.table[1]) + 1) - size[1]),
                              Max(0, (Len(gp.table) + 1) - size[2]))
    /\ gp' = [gp EXCEPT !.pc = "chunk"]
    /\ UNCHANGED <<xlsxVars, typeVars, queryVars, serverVars>>

\* One pass of the loop (567-570) with the arguments in the order the code
\* gives them: add_table_to_sheet(spreadsheet_id, sub_table, f'A{row_index}',
\* sheet_name) binds f'A{row_index}' to sheet and sheet_name to cell.
PlaceChunk ==
    /\ gp.pc = "chunk"
    /\ gp.rest # <<>>
    /\ \E accepted \in BOOLEAN :
          LET sub_table == FirstChunk(gp.rest, place_chunk_size)
              after == AfterFirstChunk(gp.rest, place_chunk_size)
              r == add_table_to_sheet(gs, sub_table, CellRef(gp.row_index),
                                      gp.sheet_name, accepted)
          IN  /\ gs' = r.gs
              /\ gp' = AfterRequest([gp EXCEPT !.rest = after,
                                               !.row_index = @ + place_chunk_size],
                                    r, IF after = <<>> THEN "done" ELSE "chunk")
    /\ UNCHANGED <<xlsxVars, typeVars, queryVars, serverVars>>

SheetInit ==
    /\ XlsxInit
    /\ db.committed = Absent
    /\ QueryIdle
    /\ RegistryLoaded
    /\ ServerIdle
    /\ gs \in [sheets : Spreadsheets, requests : {<<>>}]
    /\ gp = NoSheetCall
    /\ arg_val = None
    /\ arg_prev = "boolean"
    /\ ret = Pending

SheetNext ==
    \/ \E table \in SheetTables, sheet_name \in SheetNames :
          AddTableAndClearSheet(table, sheet_name)
    \/ CreateTemp
    \/ DeleteTarget
    \/ DeleteTemp
    \/ CreateTarget
    \/ WriteTable
    \/ \E table \in SheetTables, sheet_name \in SheetNames : PlaceChunks(table, sheet_name)
    \/ ResizeSheet
    \/ PlaceChunk

\* A call of google_api on a spreadsheet.
SheetSpec == SheetInit /\ [][SheetNext]_vars

-----------------------------------------------------------------------------
(* The registry operations and /query-database (src/main.py).              *)

\* set_database(database_id, database_params) as /append-database calls it
\* (284): the entry is assigned and the registry saved.
SetDatabase(database_id, params) ==
    /\ databases' = DictAssign(databases, database_id, params)
    /\ database_file' = save_databases(database_file, databases')
    /\ last_op' = [last_op EXCEPT ![database_id] =
                      [op |-> "set", params |-> params,
                       replaced |-> database_exists(databases, database_id)]]
    /\ UNCHANGED hq
    /\ UNCHANGED <<xlsxVars, typeVars, queryVars, sheetVars>>

\* remove_database(database_id) as /remove-database calls it (302): del
\* raises KeyError for an id that is not registered, before anything is saved.
RemoveDatabase(database_id) ==
    /\ IF database_exists(databases, database_id)
       THEN /\ databases' = DictDelete(databases, database_id)
            /\ database_file' = save_databases(database_file, databases')
            /\ last_op' = [last_op EXCEPT ![database_id] =
                              [op |-> "remove", params |-> NoParams, replaced |-> FALSE]]
       ELSE UNCHANGED <<databases, database_file, last_op>>
    /\ UNCHANGED hq
    /\ UNCHANGED <<xlsxVars, typeVars, queryVars, sheetVars>>

\* The values of OutputTypes (46-51).
OutputTypes == {"html", "xlsx", "googleSheet"}

\* The JSON body of a /query-database request.  fields says whether
\* database_id, query and output_type are all there; an empty sheet_name
\* stands for a body without spreadsheet_id or sheet_name.
QueryData(fields, database_id, query, sub_query, output_type, sheet_name) ==
    [fields |-> fields, database_id |-> database_id, query |-> query,
     sub_query |-> sub_query, output_type |-> output_type, sheet_name |-> sheet_name]

QueryRequests ==
    { QueryData(TRUE, "db", q, s, o, "Data") :
        q \in {<<"s">>, <<"s", "{", "{", "a", "}", "}">>},
        s \in SubQueries,
        o \in OutputTypes \cup {"pdf"} }
    \cup { QueryData(TRUE, "db", <<"s">>, NoSubQuery, "googleSheet", ""),
           QueryData(FALSE, "db", <<"s">>, NoSubQuery, "html", ""),
           QueryData(TRUE, "nope", <<"s">>, NoSubQuery, "html", "") }

\* The handler has answered.
Respond(h, status, error) ==
    [h EXCEPT !.pc = "responded", !.status = status, !.error = error]

\* validate_request_data turning an unrecognized output_type away as well.
ValidateOutputTypeToo(d, data) ==
    IF ~data.fields THEN "Missing required fields"
    ELSE IF ~database_exists(d, data.database_id) THEN "Database not found"
    ELSE IF data.output_type \notin OutputTypes THEN "Invalid output type"
    ELSE ""

\* validate_request_data (306-312): the exception it raises, if any.
validate_request_data(d, data) ==
    IF ~data.fields THEN "Missing required fields"
    ELSE IF ~database_exists(d, data.database_id) THEN "Database not found"
    ELSE ""

\* A value a worksheet cell cannot hold: ws.append raises ValueError for it.
Unstorable(v) == v.k \in {"list", "dict"}

\* create_xlsx(table, path, sheet_name) (excel_to_postgres.py 165-194): an
\* empty table raises ValueError; otherwise the rows are appended to the
\* worksheet and the workbook saved.  Nothing is saved when appending raised.
create_xlsx(table) ==
    IF table = <<>>
    THEN [raised |-> "ValueError", msg |-> "Table cannot be empty", file |-> FALSE]
    ELSE IF \E i \in 2..Len(table) : \E j \in 1..Len(table[i]) : Unstorable(table[i][j])
    THEN [raised |-> "ValueError", msg |-> "Cannot convert to Excel", file |-> FALSE]
    ELSE [raised |-> "none", msg |-> "", file |-> TRUE]

\* handle_download (323-331) inside the try of query_database: ValueError is
\* answered with 400 (378-379), a written file with its link.
handle_download(h, table) ==
    LET x == create_xlsx(table)
    IN  IF x.raised = "ValueError" THEN Respond(h, 400, x.msg)
        ELSE [Respond(h, 200, "") EXCEPT !.file = x.file, !.link = TRUE]

\* query_database up to the call of run_query (354-361): the body is
\* validated, and a valid request calls run_query(database_id, query,
\* sub_query).  The registry is looked at again only inside run_query.
QueryDatabase(data) ==
    /\ hq.pc = "idle"
    /\ rq.pc = "idle"
    /\ LET e == validate_request_data(databases, data)
       IN  IF e # ""
           THEN /\ hq' = Respond([hq EXCEPT !.data = data], 400, e)
                /\ UNCHANGED rq
           ELSE /\ hq' = [hq EXCEPT !.pc = "run_query", !.data = data, !.checked = TRUE]
                /\ rq' = [NoCall EXCEPT
                            !.pc = IF data.sub_query = NoSubQuery THEN "plain" ELSE "driver",
                            !.database_id = data.database_id,
                            !.query = data.query,
                            !.sub_query = data.sub_query]
    /\ UNCHANGED <<execs, subst_log>>
    /\ UNCHANGED <<xlsxVars, typeVars, registryVars, sheetVars>>

\* handle_google_sheet up to the call of add_table_and_clear_sheet (334-347).
\* google is what has_tokens() and valid_credentials() find.
handle_google_sheet(h, google, data) ==
    IF google # "ready" THEN Respond(h, 400, google)
    ELSE IF data.sheet_name = ""
    THEN Respond(h, 400, "Missing required fields (spreadsheet_id or sheet_name)")
    ELSE [h EXCEPT !.pc = "sheet"]

\* query_database once run_query has returned or raised (361-381): an
\* exception of run_query is answered with 500, and so is an error result;
\* only then is output_type turned into an OutputTypes member, which raises
\* ValueError for a value that is none of them.
HandleResult ==
    /\ hq.pc = "run_query"
    /\ rq.pc \in {"returned", "raised"}
    /\ LET result == rq.ret
           data == hq.data
       IN  IF result.kind \in {"raise", "Error"}
           THEN /\ hq' = Respond(hq, 500, result.msg)
                /\ UNCHANGED sheetVars
           ELSE IF data.output_type \notin OutputTypes
           THEN /\ hq' = Respond(hq, 400, "is not a valid OutputTypes")
                /\ UNCHANGED sheetVars
           ELSE IF data.output_type = "html"
           THEN /\ hq' = Respond(hq, 200, "")
                /\ UNCHANGED sheetVars
           ELSE IF data.output_type = "xlsx"
           THEN /\ hq' = handle_download(hq, result.v)
                /\ UNCHANGED sheetVars
           ELSE \E google \in {"no tokens", "invalid credentials", "ready"} :
                  /\ hq' = handle_google_sheet(hq, google, data)
                  /\ gp' = IF hq'.pc = "sheet"
                           THEN EnterAddTable(gs, result.v, data.sheet_name)
                           ELSE gp
                  /\ UNCHANGED gs
    /\ UNCHANGED <<xlsxVars, typeVars, queryVars, registryVars>>

\* add_table_and_clear_sheet has returned or raised (347-351, 380-381).
RespondSheet ==
    /\ hq.pc = "sheet"
    /\ gp.pc \in {"done", "raised"}
    /\ hq' = IF gp.pc = "raised" THEN Respond(hq, 500, gp.raised) ELSE Respond(hq, 200, "")
    /\ UNCHANGED <<xlsxVars, typeVars, queryVars, registryVars, sheetVars>>

\* The server after initialize_backend: the registry file, if there is one,
\* has been loaded, and no request has arrived.
ServerInit ==
    /\ XlsxInit
    /\ db.committed = Absent
    /\ QueryIdle
    /\ database_file \in {{}, {<<"db", [host |-> "h1"]>>}}
    /\ databases = RegistryFromJson(database_file)
    /\ last_op = LoadedOps(databases)
    /\ ServerIdle
    /\ gs \in [sheets : {<< Sheet("Data", 26, 1000) >>, << Sheet("Sheet1", 26, 1000) >>},
               requests : {<<>>}]
    /\ gp = NoSheetCall
    /\ arg_val = None
    /\ arg_prev = "boolean"
    /\ ret = Pending

ServerNext ==
    \/ \E database_id \in DatabaseIds, params \in DatabaseParams :
          SetDatabase(database_id, params)
    \/ \E database_id \in DatabaseIds : RemoveDatabase(database_id)
    \/ \E data \in QueryRequests : QueryDatabase(data)
    \/ RunPlain
    \/ RunDriver
    \/ NextRow
    \/ NextColumn
    \/ ReplaceStep
    \/ RunTemplate
    \/ HandleResult
    \/ CreateTemp
    \/ DeleteTarget
    \/ DeleteTemp
    \/ CreateTarget
    \/ WriteTable
    \/ RespondSheet

\* Requests to the registry endpoints and to /query-database, handled
\* concurrently.
ServerSpec == ServerInit /\ [][ServerNext]_vars

-----------------------------------------------------------------------------
(* create_xlsx and handle_download on their own.                           *)

\* Values psycopg2 returns for a json and for an array column.
SqlJson == [k |-> "dict", n |-> 0, c |-> <<>>]
SqlArray == [k |-> "list", n |-> 0, c |-> <<>>]

DownloadRows == {<<SqlInt(1)>>, <<SqlStr(<<"x">>)>>, <<SqlNull>>, <<SqlJson>>, <<SqlArray>>}

\* The empty table, and the tables of a header row and up to MaxDownloadRows
\* data rows.
DownloadTables ==
    {<<>>} \cup
    UNION { { << << <<"c">> >> >> \o rows : rows \in [1..n -> DownloadRows] } :
            n \in 0..MaxDownloadRows }

\* handle_download(table, app.config) is called inside the try of
\* query_database (370, 378-379) and the request answered.
Download ==
    /\ hq.pc = "idle"
    /\ ret' = [fn |-> "create_xlsx", t |-> create_xlsx(arg_val).raised]
    /\ hq' = handle_download(hq, arg_val)
    /\ UNCHANGED <<arg_val, arg_prev>>
    /\ UNCHANGED <<xlsxVars, queryVars, registryVars, sheetVars>>

DownloadInit ==
    /\ XlsxInit
    /\ db.committed = Absent
    /\ QueryIdle
    /\ RegistryLoaded
    /\ ServerIdle
    /\ SheetIdle
    /\ arg_val \in DownloadTables
    /\ arg_prev = "boolean"
    /\ ret = Pending

DownloadNext == Download

DownloadSpec == DownloadInit /\ [][DownloadNext]_vars

-----------------------------------------------------------------------------
(* Properties.                                                             *)

\* The rows appended to the batch during the scan, in source order.
SpooledRows ==
    LET sp == SelectSeq(scan_log, LAMBDA e : e.out = "spooled")
    IN  [i \in 1..Len(sp) |-> sp[i].row]

\* The rows the spool file holds, decoded.
DecodedTmp == [i \in 1..Len(tmp) |-> json_loads(tmp[i])]

\* The batches handed to execute_batch, in call order.
InsertBatches ==
    LET ins == SelectSeq(statements, LAMBDA st : st.op = "INSERT")
    IN  [i \in 1..Len(ins) |-> ins[i].rows]

CreateStatements == SelectSeq(statements, LAMBDA st : st.op = "CREATE")

RECURSIVE Concat(_)
Concat(batches) ==
    IF batches = <<>> THEN <<>> ELSE Head(batches) \o Concat(Tail(batches))

RECURSIVE Sum(_)
Sum(ns) == IF ns = <<>> THEN 0 ELSE Head(ns) + Sum(Tail(ns))

\* ceil(n / d)
CeilDiv(n, d) == (n + d - 1) \div d

\* The precedence ranks as the specification lists them.
Rank(t) ==
    CASE t = "text" -> 0 [] t = "real" -> 1 [] t = "bigint" -> 2 [] t = "integer" -> 3
      [] t = "json" -> 4 [] t = "timestamp" -> 5 [] t = "date" -> 6 [] t = "boolean" -> 7

MinByRank(S) == CHOOSE t \in S : \A u \in S : Rank(t) <= Rank(u)

\* The scan has ended without an exception (the remainder has been flushed).
ScanCompleted ==
    /\ pc \notin {"idle", "scan"}
    /\ ~(pc = "raised" /\ err.at \in {"idle", "scan"})

\* C1: for every column of the schema, the running type after each cell
\* reconciled into it is the minimum by rank of the classifications of the
\* cells seen so far and the seed boolean, and the dict holds the last one.
C1_RunningTypeIsMinByRank ==
    /\ Len(observed) = Len(table_data_types)
    /\ \A i \in 1..Len(observed) :
          /\ \A j \in 1..Len(observed[i]) :
                observed[i][j].t =
                    MinByRank({"boolean"} \cup
                              {convert_python_type_to_postgres(observed[i][k].v) :
                                   k \in 1..j})
          /\ table_data_types[i].t = observed[i][Len(observed[i])].t

\* C1 witness: a column that saw true, 1, "x" in this order and went
\* boolean, integer, text.
C1_Witness ==
    \E i \in 1..Len(observed) :
        /\ Len(observed[i]) = 3
        /\ [j \in 1..3 |-> observed[i][j].v] = <<ValTrue, ValOne, ValX>>
        /\ [j \in 1..3 |-> observed[i][j].t] = <<"boolean", "integer", "text">>
        /\ table_data_types[i].t = "text"

\* The integer v lies in -lim .. lim.
WithinLimit(v, lim) == ~PyGt(v, PyInt(FALSE, lim)) /\ ~PyGt(PyInt(TRUE, lim), v)

\* The classification the specification states, by kind of value.
StatedType(v) ==
    CASE v.k \in {"NoneType", "bool"} -> "boolean"
      [] v.k = "str" -> "text"
      [] v.k = "float" -> "real"
      [] v.k \in {"list", "dict"} -> "json"
      [] v.k = "datetime" -> "timestamp"
      [] v.k = "date" -> "date"
      [] v.k = "int" ->
            IF WithinLimit(v, <<2, 147483645>>) THEN "integer"
            ELSE IF WithinLimit(v, <<9, 223372036, 854775805>>) THEN "bigint"
            ELSE "text"
      [] OTHER -> "text"

\* C2: convert_python_type_to_postgres returns, for every value, a member
\* of DataTypes, and it is the type the specification states for the kind
\* of the value: a boolean is boolean and not integer, an integer is
\* integer, bigint or text by its range, an unknown kind is text.
C2_ClassifyAsStated ==
    ret.fn = "convert_python_type_to_postgres" =>
        /\ ret.t \in DataTypes
        /\ ret.t = StatedType(arg_val)

\* C2 witness: an integer just beyond the first threshold was classified
\* bigint.
C2_Witness ==
    /\ ret.fn = "convert_python_type_to_postgres"
    /\ arg_val = PyInt(TRUE, <<2, 147483646>>)
    /\ ret.t = "bigint"

\* C3: from one reconciled cell of a column to the next the running type
\* keeps its rank or moves to a strictly lower one, and a column that is
\* text stays text.
C3_RankNeverIncreases ==
    /\ Len(observed) = Len(table_data_types)
    /\ \A i \in 1..Len(observed) :
          /\ Rank(observed[i][1].t) <= Rank("boolean")
          /\ \A j \in 1..(Len(observed[i]) - 1) :
                /\ Rank(observed[i][j + 1].t) <= Rank(observed[i][j].t)
                /\ observed[i][j + 1].t # observed[i][j].t =>
                       Rank(observed[i][j + 1].t) < Rank(observed[i][j].t)
                /\ observed[i][j].t = "text" => observed[i][j + 1].t = "text"
          /\ table_data_types[i].t = observed[i][Len(observed[i])].t

\* C3 witness: a column that was text and then received an integer.
C3_Witness ==
    \E i \in 1..Len(observed) : \E j \in 1..(Len(observed[i]) - 1) :
        /\ observed[i][j].t = "text"
        /\ observed[i][j + 1].v = ValOne
        /\ observed[i][j + 1].t = "text"

\* C4: every data row that was spooled has as many cells as the header in
\* effect after its normalization.
C4_SpooledRowHasHeaderWidth ==
    \A i \in 1..Len(scan_log) :
        scan_log[i].out = "spooled" => Len(scan_log[i].row) = Len(scan_log[i].after)

\* C5: a data row shorter than the header is padded with None to the
\* header's length, the header is unchanged, and the row is spooled (the
\* scan goes on).
C5_ShortRowPaddedAndSpooled ==
    \A i \in 1..Len(scan_log) :
        scan_log[i].L < scan_log[i].H =>
            /\ scan_log[i].out = "spooled"
            /\ Len(scan_log[i].row) = scan_log[i].H
            /\ \A j \in (scan_log[i].L + 1)..scan_log[i].H : scan_log[i].row[j] = None
            /\ scan_log[i].after = scan_log[i].before

C7_TableMatchesHeaderAndInserts ==
    \A i \in 1..Len(statements) :
        /\ statements[i].op = "CREATE" =>
              [j \in 1..Len(statements[i].cols) |-> statements[i].cols[j].h] = headers
        /\ statements[i].op = "INSERT" =>
              /\ statements[i].nparams = Len(CreateStatements[1].cols)
              /\ \A r \in 1..Len(statements[i].rows) :
                    Len(statements[i].rows[r]) = Len(CreateStatements[1].cols)

\* C8: while the scan is under way, and after an exception raised during
\* it, no statement has been sent; once a statement has been sent the spool
\* file holds every spooled row, and the CREATE statement carries the
\* schema the scan ended with.
C8_NoStatementBeforeScanEnds ==
    /\ ~ScanCompleted => statements = <<>>
    /\ statements # <<>> =>
          /\ chunk = <<>> \/ pc \in {"insert", "raised"}
          /\ DecodedTmp = SpooledRows
          /\ Sum(writes) = Len(SpooledRows)
    /\ \A i \in 1..Len(CreateStatements) :
          /\ CreateStatements[i].cols = table_data_types
          /\ Len(observed) = Len(table_data_types)
          /\ \A c \in 1..Len(table_data_types) :
                table_data_types[c].t = observed[c][Len(observed[c])].t

\* C8 witness: the table is created from a schema of two columns after
\* three rows were spooled.
C8_Witness ==
    /\ Len(CreateStatements) = 1
    /\ Len(CreateStatements[1].cols) = 2
    /\ Len(tmp) = 3

IsPrefix(a, b) == Len(a) <= Len(b) /\ SubSeq(b, 1, Len(a)) = a

\* C9: the batches handed to execute_batch, concatenated in call order, are
\* a prefix of the spooled rows at every moment, and all of them once the
\* second pass has ended.
C9_BatchesConcatenateToSpooledRows ==
    /\ IsPrefix(Concat(InsertBatches), SpooledRows)
    /\ pc \in {"commit", "done"} => Concat(InsertBatches) = SpooledRows

\* C9 witness: four rows went through two batches.
C9_Witness ==
    /\ pc = "done"
    /\ Len(SpooledRows) = 4
    /\ Len(InsertBatches) = 2

\* Every batch but the last has the threshold size, and none is empty or
\* larger.
BatchSizesOk(sizes) ==
    \A i \in 1..Len(sizes) :
        /\ sizes[i] >= 1
        /\ sizes[i] <= chunk_size
        /\ i < Len(sizes) => sizes[i] = chunk_size

\* C10: in both passes the batch holds at most chunk_size rows and fewer
\* between two iterations; every batch written or inserted but the last has
\* chunk_size rows and none is empty; the remainder is written once, so a
\* completed pass has made ceil(N / chunk_size) batches.
C10_BatchBounded ==
    /\ Len(chunk) <= chunk_size
    /\ pc \in {"scan", "insert"} => Len(chunk) < chunk_size
    /\ BatchSizesOk(writes)
    /\ BatchSizesOk([i \in 1..Len(InsertBatches) |-> Len(InsertBatches[i])])
    /\ ScanCompleted => Len(writes) = CeilDiv(Len(SpooledRows), chunk_size)
    /\ pc \in {"commit", "done"} =>
          Len(InsertBatches) = CeilDiv(Len(SpooledRows), chunk_size)

\* C10 witness: three rows were written and inserted as a full batch and a
\* remainder of one.
C10_Witness ==
    /\ pc = "done"
    /\ writes = <<chunk_size, 1>>
    /\ [i \in 1..Len(InsertBatches) |-> Len(InsertBatches[i])] = <<chunk_size, 1>>

-----------------------------------------------------------------------------
(* Materialization: what the database holds, and what is released.          *)

Range(f) == {f[i] : i \in DOMAIN f}

FailedStatements == {i \in 1..Len(statements) : ~statements[i].ok}

CommitStatements == {i \in 1..Len(statements) : statements[i].op = "COMMIT"}

\* C11: after a successful ingestion the committed table holds exactly the
\* rows of this source, in order, under the columns of the inferred schema;
\* no row and no column of a table that existed before remains.
C11_TableHoldsExactlySourceRows ==
    pc = "done" =>
        /\ db.committed.exists
        /\ db.committed.cols = CreateColumns(table_data_types)
        /\ db.committed.rows = SpooledRows
        /\ Range(db.committed.cols) \cap Range(OldTable.cols) = {}
        /\ Range(db.committed.rows) \cap Range(OldTable.rows) = {}

\* C11 witness: a table existed, and three rows in two batches replaced it.
C11_Witness ==
    /\ pc = "done"
    /\ statements[1] = Stmt("DROP", <<>>, 0, <<>>, TRUE)
    /\ Len(db.committed.rows) = 3
    /\ Len(InsertBatches) = 2
    /\ OldTable.rows[1] \notin Range(db.committed.rows)

\* C12: a failed statement is the last one issued: nothing follows it, it is
\* not repeated, nothing is committed and psycopg2's error reaches the
\* caller.  COMMIT is issued at most once, as the last statement, after every
\* batch insert succeeded and every spooled row was inserted; a completed
\* ingestion has issued it.
C12_FailureStopsAndCommitIsLast ==
    /\ \A i \in FailedStatements :
          /\ i = Len(statements)
          /\ pc = "raised"
          /\ err.type = "psycopg2.Error"
          /\ db.committed \in {Absent, OldTable}
          /\ db.txn = db.committed
          /\ up.pc = "raised" => up.exc = "psycopg2.Error"
    /\ \A j \in CommitStatements :
          /\ j = Len(statements)
          /\ \A k \in 1..(j - 1) : statements[k].ok
          /\ Concat(InsertBatches) = SpooledRows
    /\ pc = "done" =>
          /\ CommitStatements = {Len(statements)}
          /\ FailedStatements = {}

\* C12 witness: the second batch insert failed after the first succeeded,
\* and the caller of process_excel_file got the error.
C12_Witness ==
    /\ up.pc = "raised"
    /\ err.at = "insert"
    /\ Len(InsertBatches) = 2
    /\ statements[Len(statements)].op = "INSERT"
    /\ FailedStatements = {Len(statements)}
    /\ CommitStatements = {}

-----------------------------------------------------------------------------
(* run_query: executions, results, substitution.                            *)

Terminal == rq.pc \in {"returned", "raised"}

IsEngineError(out) == out.kind \in {"connect error", "execute error"}

NoEngineError == \A i \in 1..Len(execs) : ~IsEngineError(execs[i].out)

TemplateExecs == SelectSeq(execs, LAMBDA e : e.site = "template")

\* The text run_query has after the substitutions for driver row i.
FinalText(i) ==
    LET done == SelectSeq(subst_log, LAMBDA e : e.row = i)
    IN  IF done = <<>> THEN rq.query ELSE done[Len(done)].text

\* C14: without a sub-query a completed run_query has executed the query
\* once; an engine error gives an Error with the engine's message, and
\* anything else a Table of the header row followed by the data rows in order.
C14_PlainQueryOnceTableOrError ==
    (Terminal /\ rq.sub_query = NoSubQuery) =>
        /\ Len(execs) = 1
        /\ execs[1].text = rq.query
        /\ rq.pc = "returned"
        /\ IF IsEngineError(execs[1].out)
           THEN rq.ret.kind = "Error" /\ rq.ret.msg = execs[1].out.msg
           ELSE /\ rq.ret.kind = "Table"
                /\ rq.ret.v = <<execs[1].out.header>> \o execs[1].out.rows

\* C15: run_query never raises: a completed call has returned a Table or an
\* Error, also after a statement that succeeded without a result set.
C15_RunQueryNeverRaises ==
    Terminal => rq.pc = "returned" /\ rq.ret.kind \in {"Table", "Error"}

\* C16: with a sub-query and no engine error, a completed run_query over a
\* driver Table of R data rows has made 1 + R executions: the driver first,
\* then the substituted template once per data row, in row order.
C16_DriverThenOnePerRow ==
    (/\ Terminal
     /\ rq.sub_query # NoSubQuery
     /\ NoEngineError
     /\ execs[1].out.kind = "rows") =>
        LET R == Len(execs[1].out.rows)
        IN  /\ Len(execs) = 1 + R
            /\ execs[1].site = "driver"
            /\ execs[1].text = rq.sub_query
            /\ \A i \in 1..R :
                  /\ execs[i + 1].site = "template"
                  /\ execs[i + 1].row = execs[1].out.rows[i]
                  /\ execs[i + 1].text = FinalText(i)

\* C17: an execution that ends in an engine error is the last execution, and
\* run_query returns that Error alone: nothing is executed after it, nothing
\* is repeated, and no row of an earlier execution is in the result.
C17_FirstErrorReturnedAtOnce ==
    \A i \in 1..Len(execs) :
        IsEngineError(execs[i].out) =>
            /\ i = Len(execs)
            /\ rq.pc = "returned"
            /\ rq.ret = [kind |-> "Error", msg |-> execs[i].out.msg, v |-> <<>>]

\* C17 witness: the driver and the first template execution gave rows, the
\* second template execution failed, and the Error was returned.
C17_Witness ==
    /\ Len(execs) = 3
    /\ execs[2].out.kind = "rows"
    /\ execs[2].out.rows # <<>>
    /\ IsEngineError(execs[3].out)
    /\ rq.pc = "returned"
    /\ rq.ret.kind = "Error"

\* C18: a Table returned by the sub-query flow is the header of the last
\* template execution followed by the data rows of all template executions
\* in driver order; with zero driver rows no template is executed and the
\* Table is a single empty header row.
C18_LastHeaderAndAllRows ==
    (rq.pc = "returned" /\ rq.sub_query # NoSubQuery /\ rq.ret.kind = "Table") =>
        LET T == TemplateExecs
        IN  /\ Len(T) = Len(execs[1].out.rows)
            /\ Len(execs) = 1 + Len(T)
            /\ IF T = <<>>
               THEN rq.ret.v = << <<>> >>
               ELSE /\ rq.ret.v[1] = T[Len(T)].out.header
                    /\ Tail(rq.ret.v) = Concat([i \in 1..Len(T) |-> T[i].out.rows])

\* C18 witness: two template executions with different headers; the result
\* has the second header and the rows of both.
C18_Witness ==
    /\ rq.pc = "returned"
    /\ rq.ret.kind = "Table"
    /\ Len(TemplateExecs) = 2
    /\ TemplateExecs[1].out.header # TemplateExecs[2].out.header
    /\ rq.ret.v[1] = TemplateExecs[2].out.header
    /\ Len(rq.ret.v) = 4

\* C19 as stated: no executed template text contains the placeholder of any
\* driver column.
C19_NoDriverPlaceholderExecuted ==
    \A i \in 1..Len(execs) :
        execs[i].site = "template" =>
            \A c \in 1..Len(rq.headers) :
                ~Contains(execs[i].text, Key(rq.headers[c]))

\* C19: right after the substitution for a column the text has no
\* occurrence of that column's placeholder, and an executed template text
\* has no occurrence of the placeholder of the last driver column.
C19_NoPlaceholderOfColumnJustSubstituted ==
    /\ \A j \in 1..Len(subst_log) : ~Contains(subst_log[j].text, subst_log[j].key)
    /\ \A i \in 1..Len(execs) :
          execs[i].site = "template" =>
              ~Contains(execs[i].text, Key(rq.headers[Len(rq.headers)]))

\* C19 witness: the value of column b was the placeholder of column a, and
\* the executed text contains it.
C19_Witness ==
    /\ Len(execs) = 2
    /\ execs[2].site = "template"
    /\ Len(rq.headers) = 2
    /\ Contains(execs[2].text, Key(rq.headers[1]))
    /\ ~Contains(execs[2].text, Key(rq.headers[2]))

-----------------------------------------------------------------------------
(* Dates in the spool.                                                      *)

HasDateCell(row) == \E j \in 1..Len(row) : isinstance(row[j], "date")

\* The write of a batch to the spool file raised.
SpoolWriteFailed ==
    /\ pc = "raised"
    /\ err.at = "scan"
    /\ err.type = "TypeError"
    /\ scan_log # <<>>
    /\ scan_log[Len(scan_log)].out = "spooled"

\* C27: the write of a batch to the spool file does not fail on a row that
\* holds a date-with-time or a date-only cell.
C27_DateRowSpooled ==
    ~(SpoolWriteFailed /\ \E i \in 1..Len(chunk) : HasDateCell(chunk[i]))

-----------------------------------------------------------------------------
(* /upload-table: validation.                                               *)

\* What the claims call a request that fails validation, apart from the
\* sheet name.
InvalidUpload(req) ==
    \/ ~req.has_file
    \/ ~req.has_config
    \/ req.filename = <<>>
    \/ req.config_filename = <<>>
    \/ ~allowed_file(req.filename, ALLOWED_EXTENSIONS)
    \/ req.database_id \notin DOMAIN databases

\* C21: an upload that fails validation (file part, config part, file name,
\* extension, database id, sheet name) is answered with an error of status
\* 400, and no statement was executed: the table is as it was.
C21_InvalidUploadTouchesNothing ==
    (up.status # 0 /\ (InvalidUpload(up.req) \/ up.exc = "ExcelUploadError")) =>
        /\ up.status = 400
        /\ up.error # ""
        /\ statements = <<>>
        /\ db.txn = db.committed
        /\ db.committed \in {Absent, OldTable}

\* C21 witness: the workbook was staged, the sheet was not in it, and the
\* request was answered with 400 after the staged file was removed.
C21_Witness ==
    /\ up.status = 400
    /\ up.pc = "raised"
    /\ up.exc = "ExcelUploadError"
    /\ ~InvalidUpload(up.req)
    /\ ~up.staged
    /\ statements = <<>>

\* A table name with a character that ends the quoted identifier.
HasDisallowedChar(name) == \E i \in 1..Len(name) : name[i] = "\""

\* C22: for a table_name with a disallowed character no statement is sent
\* to the database.
C22_BadTableNameSendsNothing ==
    HasDisallowedChar(up.req.table_name) => statements = <<>>

\* C26: an upload of a delimited-text file is not turned away for its file
\* type.
C26_DelimitedTextAccepted ==
    (/\ up.status # 0
     /\ HasDot(up.req.filename)
     /\ get_file_extension(up.req.filename) = <<"c", "s", "v">>) =>
        ~(up.status = 400 /\ up.error = ERROR_MESSAGES.file_type_not_allowed)

\* The values().update requests the spreadsheet service received, in order.
UpdateRequests == SelectSeq(gs.requests, LAMBDA r : r.op = "update")

\* C24: a table is written to the spreadsheet in pieces of at most chunk_size
\* rows, piece k (from 0) to the sheet sheet_name starting at row
\* 1 + k * chunk_size, and the pieces put together are the table.
C24_TableWrittenInChunks ==
    /\ \A k \in 1..Len(UpdateRequests) :
          /\ Len(UpdateRequests[k].rows) <= place_chunk_size
          /\ UpdateRequests[k].sheet = gp.sheet_name
          /\ UpdateRequests[k].cell = CellRef(1 + (k - 1) * place_chunk_size)
    /\ (gp.pc = "done" /\ gp.table # <<>> /\ gp.table[1] # <<>>) =>
          Concat([k \in 1..Len(UpdateRequests) |-> UpdateRequests[k].rows]) = gp.table

\* C28: while add_table_and_clear_sheet runs the spreadsheet always holds a
\* sheet, no deleteSheet request is sent for the only sheet, and after the
\* call the sheet sheet_name exists and no __temp__ sheet made by the call is
\* left.
C28_SpreadsheetKeepsASheet ==
    gp.fn = "add_table_and_clear_sheet" =>
        /\ Len(gs.sheets) >= 1
        /\ \A i \in 1..Len(gs.requests) :
              gs.requests[i].op = "deleteSheet" => ~gs.requests[i].only_sheet
        /\ gp.pc \in {"done", "raised"} =>
              /\ HasSheet(gs, gp.sheet_name)
              /\ ~(gp.created_temp /\ HasSheet(gs, TempSheet))

\* C29: the registry file holds what the registry in memory holds, with one
\* entry for an id; an id is registered exactly when the last operation that
\* went through on it was set_database, and its parameters are then those of
\* that set_database.
C29_RegistryFollowsLastOperation ==
    /\ database_file = RegistryToJson(databases)
    /\ \A m1, m2 \in database_file : m1[1] = m2[1] => m1 = m2
    /\ \A id \in DatabaseIds :
          /\ database_exists(databases, id) <=> last_op[id].op = "set"
          /\ database_exists(databases, id) =>
                get_database_params_from_id(databases, id) = last_op[id].params

\* C29 witness: "db" was set again with other parameters while registered,
\* and "other" was registered and then removed.
C29_Witness ==
    /\ last_op["db"].op = "set"
    /\ last_op["db"].replaced
    /\ databases["db"] = [host |-> "h2"]
    /\ last_op["other"].op = "remove"
    /\ database_file = {<<"db", [host |-> "h2"]>>}

\* The request passed validate_request_data and has been answered.
CheckedAndAnswered == hq.checked /\ hq.pc = "responded"

\* C25: a request that passed the database-exists check gets the parameters
\* of its database: it does not fail on the lookup because the registration
\* was removed in between.
C25_CheckedRequestFindsItsDatabase ==
    CheckedAndAnswered => rq.ret # KeyErrorRaised

\* Every statement run_query executed went through and was committed.
AllExecuted == \A i \in 1..Len(execs) : execs[i].out.kind = "rows"

\* The request named all required fields and a registered database, and its
\* output_type is none of OutputTypes.
UnknownOutputType == hq.checked /\ hq.data.output_type \notin OutputTypes

\* C30 as stated: a request with all required fields, a registered database
\* and an unrecognized output_type executes the query exactly once and is
\* answered with 400; a request with a missing field or an unregistered
\* database id executes nothing.
C30_ExecutedOnceThenRejected ==
    hq.pc = "responded" =>
        /\ UnknownOutputType =>
              /\ Len(execs) = 1
              /\ AllExecuted
              /\ hq.status = 400
        /\ ~hq.checked => execs = <<>>

\* C30: the query is run before output_type is looked at.  A request turned
\* away by the validation executes nothing and is answered with 400.  A
\* validated request with an unrecognized output_type is answered with 400
\* exactly when run_query returned a table, every statement it executed
\* having gone through, and with 500 when run_query returned an error or
\* raised; without sub_query one statement is executed, or none when the
\* lookup of the database raised.
C30_QueryRunsBeforeOutputType ==
    hq.pc = "responded" =>
        /\ ~hq.checked =>
              /\ execs = <<>>
              /\ hq.status = 400
              /\ hq.error \in {"Missing required fields", "Database not found"}
        /\ UnknownOutputType =>
              /\ hq.status = 400 <=> rq.ret.kind = "Table"
              /\ hq.status = 500 <=> rq.ret.kind \in {"Error", "raise"}
              /\ hq.status = 400 => Len(execs) >= 1 /\ AllExecuted
              /\ hq.data.sub_query = NoSubQuery =>
                    /\ Len(execs) <= 1
                    /\ Len(execs) = 0 <=> rq.ret = KeyErrorRaised

\* C30 witness: the query of a request with output_type "pdf" was executed
\* once, and the request was then answered with 400.
C30_Witness ==
    /\ hq.pc = "responded"
    /\ hq.data.output_type = "pdf"
    /\ hq.data.sub_query = NoSubQuery
    /\ hq.status = 400
    /\ Len(execs) = 1
    /\ execs[1].out.kind = "rows"

\* handle_download has been called with the table arg_val and answered.
Downloaded == ret.fn = "create_xlsx" /\ hq.pc = "responded"

\* The empty table is turned away: ValueError, no file, status 400.
EmptyTableRejected == ret.t = "ValueError" /\ ~hq.file /\ ~hq.link /\ hq.status = 400

\* A file was written and its link returned.
FileAndLink == ret.t = "none" /\ hq.file /\ hq.link /\ hq.status = 200

\* C23 as stated: create_xlsx raises ValueError for the empty table, writes
\* no file, and the request is answered with 400; for every other table a
\* file is written and a download link returned.
C23_FileForEveryNonEmptyTable ==
    Downloaded => IF arg_val = <<>> THEN EmptyTableRejected ELSE FileAndLink

====
